---------------------------- MODULE Spec2Model ----------------------------
(***************************************************************************)
(* A model of the retrieval and evidence-assembly pipeline of the research *)
(* paper chat system: the semantic chunker, the reading order resolver,    *)
(* the vector index and retriever (with MMR diversification), the answer   *)
(* engine and the answer cache.                                            *)
(*                                                                         *)
(* Each component has its own specification (SpecChunk, SpecOrder, ...)    *)
(* over its own variables; the variables of the other components stay at   *)
(* their idle values.                                                      *)
(***************************************************************************)
EXTENDS Integers, Sequences, FiniteSets, TLC

VARIABLES
    \* SemanticChunker._chunk_text
    text,           \* the region text passed to _chunk_text
    chunk_size,     \* self.chunk_size (tokens)
    chunk_overlap,  \* self.chunk_overlap (tokens)
    start,          \* the loop variable start
    chunk_index,    \* the loop variable chunk_index
    chunks,         \* the list chunks being built
    windows,        \* the [start, end) pair of every loop iteration so far
    cpc,            \* position in _chunk_text: "call", "loop", "done"
    paper_name,     \* the argument paper_name
    region_id,      \* the argument region_id
    \* ReadingOrderDetector.determine_reading_order
    regions,        \* the argument regions (layout regions of one document)
    ordered_regions,\* the returned list of OrderedRegion
    opc,            \* "call" before the call, "done" after it
    \* RAGRetriever._diversify_results
    candidates,     \* the argument results (search results to choose from)
    mmr_top_k,      \* the argument top_k
    mmr_lambda,     \* the argument diversity_lambda, in tenths
    selected,       \* the returned list
    mpc,            \* "call" before the call, "done" after it
    \* VectorStore
    collection,     \* the stored vectors, in insertion order
    store_call,     \* the last call made on the store and what it returned
    \* RAGRetriever.retrieve
    r_top_k,        \* the argument top_k (0: not given)
    r_filter_papers,        \* the argument filter_papers
    r_filter_region_types,  \* the argument filter_region_types
    r_lambda,       \* the argument diversity_lambda, in tenths
    retrieval_result,       \* the returned RetrievalResult
    r_searches,     \* the search operations the call invoked on the store
    rpc,            \* "call" before the call, "done" after it
    \* AnswerEngine.answer_question
    retrieved_evidence,     \* the RetrievalResult the call obtained
    answer,         \* the returned Answer
    llm_invocations,\* how often self.llm.invoke has been called
    llm_raised,     \* whether self.llm.invoke raised in the call
    apc,            \* "call" before the call, "done" after it
    \* AnswerEngine.multi_hop_reasoning
    mh_max_hops,    \* the argument max_hops
    hop,            \* the loop variable hop
    current_query,  \* the query of the next retrieval
    all_evidence,   \* the evidence accumulated over the hops
    reasoning_chain,\* one entry per hop that produced an intermediate answer
    mh_events,      \* the retrievals and model invocations of the call, in order
    mh_answer,      \* the returned Answer
    mhpc,           \* "call", "loop", "final", "done"
    \* AnswerCache
    cache,          \* self.cache: question -> CachedAnswer
    cache_file,     \* what the cache file holds
    cache_call,     \* the last call made on the cache and what it returned
    \* VLMExtractor._call_vlm
    vlm_max_retries,\* the argument max_retries
    attempt,        \* the loop variable attempt
    vlm_log,        \* the API calls and sleeps of the call, in order
    vlm_outcome,    \* how the call ended: returned, or raised with an error text
    vpc             \* "call", "loop", "done"

chunkVars == <<text, chunk_size, chunk_overlap, start, chunk_index, chunks, windows, cpc,
              paper_name, region_id>>
orderVars == <<regions, ordered_regions, opc>>
mmrVars == <<candidates, mmr_top_k, mmr_lambda, selected, mpc>>
storeVars == <<collection, store_call>>
retrieveVars == <<r_top_k, r_filter_papers, r_filter_region_types, r_lambda, retrieval_result,
                 r_searches, rpc>>
answerVars == <<retrieved_evidence, answer, llm_invocations, llm_raised, apc>>
multiHopVars == <<mh_max_hops, hop, current_query, all_evidence, reasoning_chain, mh_events, mh_answer, mhpc>>
cacheVars == <<cache, cache_file, cache_call>>
vlmVars == <<vlm_max_retries, attempt, vlm_log, vlm_outcome, vpc>>

vars == <<chunkVars, orderVars, mmrVars, storeVars, retrieveVars, answerVars, multiHopVars, cacheVars,
          vlmVars>>

----------------------------------------------------------------------------
(* Bounds of the model *)

MaxLen == 6          \* longest region text
MaxChunkSize == 2    \* largest configured chunk_size (tokens)
MaxOverlap == 2      \* largest configured chunk_overlap (tokens)
MaxIter == 6         \* loop iterations of _chunk_text that are followed
ScenarioChunkSize == 2 \* chunk_size (tokens) of the scaled scenario B
ScenarioOverlap == 1 \* chunk_overlap (tokens) of the scaled scenario B
MaxExcess == 2       \* most characters beyond one window in scenario B
MaxRegions == 3      \* most regions of a document
MaxCandidates == 4   \* longest candidate list handed to _diversify_results
MaxTopK == 3         \* largest top_k asked for
MaxIndex == 3        \* most vectors stored in the index
MaxBatch == 2        \* most chunks in one add_chunks call
MaxHops == 3         \* largest max_hops asked for
MaxQuestions == 2    \* longest question list handed to update_all
MaxRetries == 4      \* largest max_retries asked for

(* Program constants *)

CharsPerToken == 4   \* chunker.py: approx_tokens = len(text) / 4
ColumnThreshold == 50 \* reading_order.py: column_threshold: float = 50.0
DefaultPriority == 5 \* reading_order.py: self.type_priority.get(..., 5)
SimSameRegion == 9   \* rag_retriever.py: return 0.9, in tenths
SimSamePaper == 6    \* rag_retriever.py: return 0.6, in tenths
SimOther == 3        \* rag_retriever.py: return 0.3, in tenths
TopKDefault == 10    \* config.py: TOP_K_RETRIEVAL = 10

----------------------------------------------------------------------------
(* Python helpers *)

Min(a, b) == IF a < b THEN a ELSE b
Max(a, b) == IF a > b THEN a ELSE b

\* How Python turns a slice bound i into a position of a string of length n.
PyIdx(i, n) == IF i < 0 THEN Max(i + n, 0) ELSE Min(i, n)

\* t[s:e]
Slice(t, s, e) ==
    LET lo == PyIdx(s, Len(t))
        hi == PyIdx(e, Len(t))
    IN  IF lo >= hi THEN <<>> ELSE SubSeq(t, lo + 1, hi)

\* t.rfind(sub, s, e) for a non-empty sub: the highest 0-based position p with
\* lo <= p and p + len(sub) <= hi where sub occurs, or -1.
RFind(t, sub, s, e) ==
    LET lo == PyIdx(s, Len(t))
        hi == PyIdx(e, Len(t))
        hits == {p \in lo..(hi - Len(sub)) : SubSeq(t, p + 1, p + Len(sub)) = sub}
    IN  IF hits = {} THEN -1 ELSE CHOOSE p \in hits : \A q \in hits : q <= p

Whitespace == {" ", "\n"}

RECURSIVE LStrip(_)
LStrip(t) == IF t # <<>> /\ Head(t) \in Whitespace THEN LStrip(Tail(t)) ELSE t

RECURSIVE RStrip(_)
RStrip(t) ==
    IF t # <<>> /\ t[Len(t)] \in Whitespace THEN RStrip(SubSeq(t, 1, Len(t) - 1)) ELSE t

\* t.strip()
Strip(t) == RStrip(LStrip(t))

\* sorted(s, key=...) / list.sort(key=...): Python's sort is stable, so an
\* element goes after every element that sorts before it and after the equal
\* ones that came earlier in s.  Lt is the strict order of the keys.
StableSort(s, Lt(_, _)) ==
    LET n == Len(s)
        rank(i) == Cardinality({j \in 1..n :
                        Lt(s[j], s[i]) \/ (~Lt(s[i], s[j]) /\ j < i)})
    IN  [k \in 1..n |-> s[CHOOSE i \in 1..n : rank(i) = k - 1]]

RECURSIVE Concat(_)
Concat(ss) == IF ss = <<>> THEN <<>> ELSE Head(ss) \o Concat(Tail(ss))

SetMin(S) == CHOOSE x \in S : \A y \in S : x <= y

----------------------------------------------------------------------------
(* SemanticChunker._chunk_text *)

Alphabet == {"a", " ", "\n", "."}

Texts == UNION {[1..n -> Alphabet] : n \in 0..MaxLen}

\* for break_char in ['\n\n', '\n', '. ', ' ']
BreakChars == << <<"\n", "\n">>, <<"\n">>, <<".", " ">>, <<" ">> >>

\* The natural break: the end after the first break_char (in list order) that
\* rfind finds in text[s:e], or e unchanged when none is found.
RECURSIVE BreakEnd(_, _, _, _)
BreakEnd(t, s, e, k) ==
    IF k > Len(BreakChars) THEN e
    ELSE LET break_pos == RFind(t, BreakChars[k], s, e)
         IN  IF break_pos # -1 THEN break_pos + Len(BreakChars[k])
             ELSE BreakEnd(t, s, e, k + 1)

\* end as it stands when the chunk is cut
WindowEnd(t, s, char_size) ==
    LET end == s + char_size
    IN  IF end < Len(t) THEN BreakEnd(t, s, end, 1) ELSE end

\* start = end - char_overlap if end < len(text) else end
NextStart(t, end, char_overlap) ==
    IF end < Len(t) THEN end - char_overlap ELSE end

\* Names are sequences of pieces, "_" being a piece of its own.
\* Paper names (document['filename']): plain, and ending like a region id
PaperNames ==
    {<<"A">>, <<"A", "_", "page", "1">>, <<"A", "_", "page", "1", "_", "region", "0">>}

\* layout_detector.py: region_id=f"page{page_num}_region{idx}"
RegionName(page_num, idx) == <<"page", ToString(page_num), "_", "region", ToString(idx)>>

RegionNames == {RegionName(p, i) : p \in 1..2, i \in 0..1}

\* A slip: the region is left out of the id.
ChunkIdWithoutRegion(paper, region, idx) == paper \o <<"_", "chunk", ToString(idx)>>

\* f"{paper_name}_{region_id}_chunk{chunk_index}"
ChunkId(paper, region, idx) ==
    paper \o <<"_">> \o region \o <<"_", "chunk", ToString(idx)>>

\* A slip: the text of a chunk is always stripped.
MkChunkStripped(t, idx, lo, hi) ==
    [chunk_id |-> ChunkId(paper_name, region_id, idx),
     text |-> Strip(t), chunk_index |-> idx, lo |-> lo, hi |-> hi]

\* A chunk: its id, its text, its chunk_index, and the positions [lo, hi) of
\* the input text its text was sliced from.
MkChunk(t, idx, lo, hi) ==
    [chunk_id |-> ChunkId(paper_name, region_id, idx),
     text |-> t, chunk_index |-> idx, lo |-> lo, hi |-> hi]

\* The same test with floor division (len(text) // 4), a slip that lets a text
\* of up to three characters more than the window through as one chunk.
FitsOneChunkFloor(t, size) == Len(t) \div CharsPerToken <= size

\* approx_tokens <= self.chunk_size, with approx_tokens = len(text) / 4
FitsOneChunk(t, size) == Len(t) <= size * CharsPerToken

ChunkInit ==
    /\ text \in Texts
    /\ chunk_size \in 1..MaxChunkSize
    /\ chunk_overlap \in 0..MaxOverlap
    /\ start = 0
    /\ chunk_index = 0
    /\ chunks = <<>>
    /\ windows = <<>>
    /\ cpc = "call"
    /\ paper_name = <<"A">>
    /\ region_id = RegionName(1, 0)

\* Entry of _chunk_text: the single-chunk branch, or the set-up of the loop.
ChunkCall ==
    /\ cpc = "call"
    /\ IF FitsOneChunk(text, chunk_size)
       THEN /\ chunks' = <<MkChunk(text, 0, 0, Len(text))>>
            /\ cpc' = "done"
       ELSE /\ chunks' = <<>>
            /\ cpc' = "loop"
    /\ UNCHANGED <<text, chunk_size, chunk_overlap, start, chunk_index, windows,
                   paper_name, region_id>>
    /\ UNCHANGED <<orderVars, mmrVars, storeVars, retrieveVars, answerVars, multiHopVars, cacheVars, vlmVars>>

\* One iteration of: while start < len(text)
ChunkLoop ==
    /\ cpc = "loop"
    /\ Len(windows) < MaxIter
    /\ LET char_size == chunk_size * CharsPerToken
           char_overlap == chunk_overlap * CharsPerToken
           end == WindowEnd(text, start, char_size)
           chunk_text == Strip(Slice(text, start, end))
           new_start == NextStart(text, end, char_overlap)
       IN  /\ windows' = Append(windows, <<start, end>>)
           /\ IF chunk_text # <<>>
              THEN /\ chunks' = Append(chunks,
                           MkChunk(chunk_text, chunk_index,
                                   PyIdx(start, Len(text)), PyIdx(end, Len(text))))
                   /\ chunk_index' = chunk_index + 1
              ELSE UNCHANGED <<chunks, chunk_index>>
           /\ start' = new_start
           /\ cpc' = IF new_start >= Len(text) THEN "done" ELSE "loop"
    /\ UNCHANGED <<text, chunk_size, chunk_overlap, paper_name, region_id>>
    /\ UNCHANGED <<orderVars, mmrVars, storeVars, retrieveVars, answerVars, multiHopVars, cacheVars, vlmVars>>

ChunkNext == ChunkCall \/ ChunkLoop

\* Scenario B, scaled down: a text longer than one window by at most
\* MaxExcess characters, over letters and spaces
ScenarioTexts ==
    UNION {[1..n -> {"a", " "}] :
              n \in (ScenarioChunkSize * CharsPerToken + 1)
                      ..(ScenarioChunkSize * CharsPerToken + MaxExcess)}

\* _chunk_text is called on such a text with the scenario's configuration
ScenarioInit ==
    /\ text \in ScenarioTexts
    /\ chunk_size = ScenarioChunkSize
    /\ chunk_overlap = ScenarioOverlap
    /\ start = 0
    /\ chunk_index = 0
    /\ chunks = <<>>
    /\ windows = <<>>
    /\ cpc = "call"
    /\ paper_name = <<"A">>
    /\ region_id = RegionName(1, 0)

ChunkIdle ==
    /\ text = <<>> /\ chunk_size = 1 /\ chunk_overlap = 0 /\ start = 0
    /\ chunk_index = 0 /\ chunks = <<>> /\ windows = <<>> /\ cpc = "idle"
    /\ paper_name = <<"A">> /\ region_id = RegionName(1, 0)

\* _chunk_text is called for a region of some paper, on a text of letters
\* and spaces, with windows of one token
ChunkIdsInit ==
    /\ text \in UNION {[1..n -> {"a", " "}] : n \in 0..MaxLen}
    /\ chunk_size = 1
    /\ chunk_overlap \in 0..1
    /\ start = 0
    /\ chunk_index = 0
    /\ chunks = <<>>
    /\ windows = <<>>
    /\ cpc = "call"
    /\ paper_name \in PaperNames
    /\ region_id \in RegionNames

----------------------------------------------------------------------------
(* Claims about _chunk_text *)

\* C1: from one loop iteration to the next the start position strictly
\* increases (a new start that does not advance ends the loop instead).
C1_StartAdvances == [][(cpc = "loop" /\ cpc' = "loop") => start' > start]_vars

\* C2: when a text is split into several chunks, the source spans of the
\* chunks, in chunk_index order, begin at position 0, leave no gap between one
\* span's end and the next span's start, and reach the end of the text once
\* the call has returned.
C2_SpansCover ==
    Len(chunks) >= 2 =>
        /\ chunks[1].lo = 0
        /\ \A i \in 1..(Len(chunks) - 1) : chunks[i + 1].lo <= chunks[i].hi
        /\ cpc = "done" => chunks[Len(chunks)].hi = Len(text)

----------------------------------------------------------------------------
(* ReadingOrderDetector *)

RegionTypes == {"title", "text", "list", "table", "figure"}

\* bbox = [x1, y1, x2, y2]
Boxes == {<<0, 0, 40, 10>>, <<30, 50, 90, 60>>, <<80, 0, 120, 10>>}

PageNums == {1, 2}

\* A layout region; region_id is its position in the document's region list.
Region(id, type, bbox, page) ==
    [region_id |-> id, region_type |-> type, bbox |-> bbox, page_num |-> page]

\* self.type_priority.get(r['region_type'], 5)
TypePriority(type) ==
    CASE type = "title" -> 0
      [] type = "text" -> 1
      [] type = "list" -> 2
      [] type = "table" -> 3
      [] type = "figure" -> 4
      [] OTHER -> DefaultPriority

\* Numbers that the code holds as floats are held as exact fractions
\* [num, den] with den > 0 (rounding of the float arithmetic is left out).
Frac(n, d) == [num |-> n, den |-> d]
FracLt(a, b) == a.num * b.den < b.num * a.den
FracAbsDiffLt(a, b, bound) ==
    LET d == a.num * b.den - b.num * a.den
    IN  (IF d < 0 THEN -d ELSE d) < bound * a.den * b.den

\* x_center = (x1 + x2) / 2
XCenter(r) == Frac(r.bbox[1] + r.bbox[3], 2)

\* (current_column['x_center'] * (n - 1) + x_center) / n
RunningMean(c, n, x) == Frac(c.num * (n - 1) * x.den + x.num * c.den, c.den * x.den * n)

\* The clustering loop of _detect_columns over region_centers[1:].
RECURSIVE ClusterColumns(_, _, _)
ClusterColumns(rest, columns, current_column) ==
    IF rest = <<>> THEN Append(columns, current_column)
    ELSE LET region == Head(rest)
             x_center == XCenter(region)
         IN  IF FracAbsDiffLt(x_center, current_column.x_center, ColumnThreshold)
             THEN LET joined == Append(current_column.regions, region)
                  IN  ClusterColumns(Tail(rest), columns,
                          [x_center |-> RunningMean(current_column.x_center,
                                                    Len(joined), x_center),
                           regions |-> joined])
             ELSE ClusterColumns(Tail(rest), Append(columns, current_column),
                      [x_center |-> x_center, regions |-> <<region>>])

XCenterLt(r1, r2) == FracLt(XCenter(r1), XCenter(r2))

\* _detect_columns
DetectColumns(rs) ==
    IF rs = <<>> THEN <<>>
    ELSE LET region_centers == StableSort(rs, XCenterLt)
         IN  ClusterColumns(Tail(region_centers), <<>>,
                 [x_center |-> XCenter(Head(region_centers)),
                  regions |-> <<Head(region_centers)>>])

\* A slip: sorted(columns, key=..., reverse=True)
ColumnLtReversed(c1, c2) == FracLt(c2.x_center, c1.x_center)

\* sorted(columns, key=lambda col: col['x_center'])
ColumnLt(c1, c2) == FracLt(c1.x_center, c2.x_center)

\* A slip: the key is the vertical position alone.
RegionKeyLtYOnly(r1, r2) == r1.bbox[2] < r2.bbox[2]

\* key=lambda r: (type_priority.get(r['region_type'], 5), r['bbox'][1])
RegionKeyLt(r1, r2) ==
    \/ TypePriority(r1.region_type) < TypePriority(r2.region_type)
    \/ /\ TypePriority(r1.region_type) = TypePriority(r2.region_type)
       /\ r1.bbox[2] < r2.bbox[2]

\* _order_page_regions
OrderPageRegions(rs) ==
    IF rs = <<>> THEN <<>>
    ELSE LET columns == DetectColumns(rs)
             sorted_columns == StableSort(columns, ColumnLt)
         IN  Concat([k \in 1..Len(sorted_columns) |->
                        StableSort(sorted_columns[k].regions, RegionKeyLt)])

OrderedRegion(r, order) ==
    [region_id |-> r.region_id, region_type |-> r.region_type, bbox |-> r.bbox,
     page_num |-> r.page_num, reading_order |-> order]

\* A slip: the counter restarts on every page.
AssignOrderPerPage(page_ordered, global_order) ==
    [k \in 1..Len(page_ordered) |-> OrderedRegion(page_ordered[k], k - 1)]

\* The inner loop of determine_reading_order: one OrderedRegion per region of
\* the page, numbered from global_order on.
AssignOrder(page_ordered, global_order) ==
    [k \in 1..Len(page_ordered) |-> OrderedRegion(page_ordered[k], global_order + k - 1)]

\* for page_num in sorted(regions_by_page.keys())
RECURSIVE OrderPages(_, _, _)
OrderPages(rs, page_nums, global_order) ==
    IF page_nums = {} THEN <<>>
    ELSE LET page_num == SetMin(page_nums)
             page_regions == SelectSeq(rs, LAMBDA r : r.page_num = page_num)
             page_ordered == OrderPageRegions(page_regions)
         IN  AssignOrder(page_ordered, global_order)
                 \o OrderPages(rs, page_nums \ {page_num},
                               global_order + Len(page_ordered))

\* determine_reading_order
DetermineReadingOrder(rs) ==
    IF rs = <<>> THEN <<>>
    ELSE OrderPages(rs, {rs[i].page_num : i \in 1..Len(rs)}, 0)

OrderInit ==
    /\ regions = <<>>
    /\ ordered_regions = <<>>
    /\ opc = "call"

\* The layout detector hands over one more region of the document.
DetectRegion ==
    /\ opc = "call"
    /\ Len(regions) < MaxRegions
    /\ \E type \in RegionTypes, bbox \in Boxes, page \in PageNums :
           regions' = Append(regions, Region(Len(regions) + 1, type, bbox, page))
    /\ UNCHANGED <<ordered_regions, opc>>
    /\ UNCHANGED <<chunkVars, mmrVars, storeVars, retrieveVars, answerVars, multiHopVars, cacheVars, vlmVars>>

\* determine_reading_order(regions)
OrderCall ==
    /\ opc = "call"
    /\ ordered_regions' = DetermineReadingOrder(regions)
    /\ opc' = "done"
    /\ UNCHANGED regions
    /\ UNCHANGED <<chunkVars, mmrVars, storeVars, retrieveVars, answerVars, multiHopVars, cacheVars, vlmVars>>

OrderNext == DetectRegion \/ OrderCall

OrderIdle == regions = <<>> /\ ordered_regions = <<>> /\ opc = "idle"

----------------------------------------------------------------------------
(* RAGRetriever._diversify_results and _calculate_similarity *)

Papers == {"P1", "P2"}
RegionIds == {"r1", "r2"}

\* 1 - cosine distance, in tenths; distances are in tenths too.
Distances == {2, 5}
ScoreOf(distance) == 10 - distance

\* The region_type of the chunks of a region.
TypeOfRegion(region) == IF region = "r1" THEN "table" ELSE "text"

\* One formatted search result (VectorStore.search): metadata is flattened
\* into the record, text and bbox are left out.
SearchResult(id, paper, region, distance) ==
    [chunk_id |-> id, paper_name |-> paper, region_id |-> region,
     region_type |-> TypeOfRegion(region), distance |-> distance,
     score |-> ScoreOf(distance)]

\* _calculate_similarity, in tenths
CalculateSimilarity(doc1, doc2) ==
    IF doc1.region_id = doc2.region_id THEN SimSameRegion
    ELSE IF doc1.paper_name = doc2.paper_name THEN SimSamePaper
    ELSE SimOther

SetMax(S) == CHOOSE x \in S : \A y \in S : y <= x

\* mmr = diversity_lambda * relevance - (1 - diversity_lambda) * max_sim, in
\* hundredths (lambda, relevance and max_sim are in tenths).
MmrScore(candidate, sel, lambda) ==
    LET max_sim == SetMax({CalculateSimilarity(candidate, sel[k]) : k \in 1..Len(sel)})
    IN  lambda * candidate.score - (10 - lambda) * max_sim

\* A slip: the chosen candidate is not taken out of the pool.
RemoveNothing(s, x) == s

\* list.remove(x): the list without the first element equal to x
Remove(s, x) ==
    LET k == CHOOSE k \in 1..Len(s) : s[k] = x /\ \A j \in 1..(k - 1) : s[j] # x
    IN  SubSeq(s, 1, k - 1) \o SubSeq(s, k + 1, Len(s))

\* A slip: of the candidates with the highest MMR score the last one is taken.
LastBestCandidate(remaining, sel, lambda) ==
    LET best == CHOOSE k \in 1..Len(remaining) :
                    /\ \A j \in 1..Len(remaining) :
                           MmrScore(remaining[j], sel, lambda)
                               <= MmrScore(remaining[k], sel, lambda)
                    /\ \A j \in (k + 1)..Len(remaining) :
                           MmrScore(remaining[j], sel, lambda)
                               < MmrScore(remaining[k], sel, lambda)
    IN  remaining[best]

\* mmr_scores.sort(key=lambda x: x[0], reverse=True); mmr_scores[0][1]:
\* the first of the remaining candidates with the highest MMR score.
BestCandidate(remaining, sel, lambda) ==
    LET best == CHOOSE k \in 1..Len(remaining) :
                    /\ \A j \in 1..Len(remaining) :
                           MmrScore(remaining[j], sel, lambda)
                               <= MmrScore(remaining[k], sel, lambda)
                    /\ \A j \in 1..(k - 1) :
                           MmrScore(remaining[j], sel, lambda)
                               < MmrScore(remaining[k], sel, lambda)
    IN  remaining[best]

\* while len(selected) < top_k and remaining
RECURSIVE MmrLoop(_, _, _, _)
MmrLoop(sel, remaining, top_k, lambda) ==
    IF Len(sel) < top_k /\ remaining # <<>>
    THEN LET best_candidate == BestCandidate(remaining, sel, lambda)
         IN  MmrLoop(Append(sel, best_candidate), Remove(remaining, best_candidate),
                     top_k, lambda)
    ELSE sel

\* _diversify_results
DiversifyResults(results, top_k, lambda) ==
    IF Len(results) <= top_k THEN results
    ELSE MmrLoop(<<results[1]>>, Tail(results), top_k, lambda)

Lambdas == {0, 5, 10}

MmrInit ==
    /\ candidates = <<>>
    /\ mmr_top_k = 0
    /\ mmr_lambda = 0
    /\ selected = <<>>
    /\ mpc = "call"

\* One more search result, with a chunk_id of its own, joins the candidates.
AddCandidate ==
    /\ mpc = "call"
    /\ Len(candidates) < MaxCandidates
    /\ \E paper \in Papers, region \in RegionIds, distance \in Distances :
           candidates' = Append(candidates,
                                SearchResult(Len(candidates) + 1, paper, region, distance))
    /\ UNCHANGED <<mmr_top_k, mmr_lambda, selected, mpc>>
    /\ UNCHANGED <<chunkVars, orderVars, storeVars, retrieveVars, answerVars, multiHopVars, cacheVars, vlmVars>>

\* _diversify_results(candidates, top_k, diversity_lambda)
Diversify ==
    /\ mpc = "call"
    /\ \E top_k \in 1..MaxTopK, lambda \in Lambdas :
           /\ mmr_top_k' = top_k
           /\ mmr_lambda' = lambda
           /\ selected' = DiversifyResults(candidates, top_k, lambda)
    /\ mpc' = "done"
    /\ UNCHANGED candidates
    /\ UNCHANGED <<chunkVars, orderVars, storeVars, retrieveVars, answerVars, multiHopVars, cacheVars, vlmVars>>

MmrNext == AddCandidate \/ Diversify

MmrIdle ==
    /\ candidates = <<>> /\ mmr_top_k = 0 /\ mmr_lambda = 0
    /\ selected = <<>> /\ mpc = "idle"

----------------------------------------------------------------------------
(* VectorStore and RAGRetriever.retrieve *)

\* results[:n]
Take(s, n) == SubSeq(s, 1, Min(n, Len(s)))

\* One stored vector.  chunk_id is the chunker's "{paper}_{region}_chunk{i}";
\* distance is the cosine distance of its embedding to the query of the call
\* under study, in tenths.  Text, page_num and bbox are left out.
IndexedVector(paper, region, idx, distance) ==
    [chunk_id |-> <<paper, region, idx>>, paper_name |-> paper,
     region_id |-> region, region_type |-> TypeOfRegion(region),
     distance |-> distance]

\* The chunks a batch may hold: <<paper_name, region_id, distance>>
NewChunks == Papers \X RegionIds \X Distances

Batches == UNION {[1..n -> NewChunks] : n \in 1..MaxBatch}

\* collection.add: the vectors are appended one by one; the chunk_index in
\* the id counts the chunks of the same region of the same paper.
RECURSIVE AddAll(_, _)
AddAll(coll, batch) ==
    IF batch = <<>> THEN coll
    ELSE LET c   == Head(batch)
             idx == Cardinality({i \in 1..Len(coll) :
                                    /\ coll[i].paper_name = c[1]
                                    /\ coll[i].region_id = c[2]})
         IN  AddAll(Append(coll, IndexedVector(c[1], c[2], idx, c[3])), Tail(batch))

\* A slip: the where clause is not applied.
MatchesAnything(v, where) == TRUE

\* where=filter_metadata: None (<<>>) matches everything, {key: value}
\* (<<key, value>>) matches the vectors whose metadata has that value.
Matches(v, where) == where = <<>> \/ v[where[1]] = where[2]

\* The orders in which the index may rank its vectors for the query: by
\* distance, nearest first; vectors at the same distance in any order.
Rankings(coll) ==
    {p \in [1..Len(coll) -> 1..Len(coll)] :
        /\ \A i, j \in 1..Len(coll) : p[i] = p[j] => i = j
        /\ \A i, j \in 1..Len(coll) :
               i < j => coll[p[i]].distance <= coll[p[j]].distance}

\* collection.query(n_results, where): the n_results nearest matching vectors
Query(coll, ranking, n_results, where) ==
    LET ranked == [i \in 1..Len(coll) |-> coll[ranking[i]]]
    IN  Take(SelectSeq(ranked, LAMBDA v : Matches(v, where)), n_results)

\* VectorStore.search; top_k = 0 stands for None
Search(coll, ranking, top_k, filter_metadata) ==
    LET k       == IF top_k = 0 THEN TopKDefault ELSE top_k
        results == Query(coll, ranking, k, filter_metadata)
    IN  [i \in 1..Len(results) |->
            SearchResult(results[i].chunk_id, results[i].paper_name,
                         results[i].region_id, results[i].distance)]

\* results.sort(key=lambda x: x['score'], reverse=True)
ScoreGt(a, b) == a.score > b.score

\* A slip: the merged results are cut to top_k without being sorted.
FanOutUnsorted(coll, ranking, key, values, top_k) ==
    LET results == Concat([i \in 1..Len(values) |->
                              Search(coll, ranking, top_k, <<key, values[i]>>)])
    IN  IF top_k # 0 THEN Take(results, top_k) ELSE results

\* The fan-out of search_by_paper and search_by_region_type: one search per
\* filter value, results concatenated, sorted by score, truncated to top_k.
FanOut(coll, ranking, key, values, top_k) ==
    LET results == Concat([i \in 1..Len(values) |->
                              Search(coll, ranking, top_k, <<key, values[i]>>)])
        sorted  == StableSort(results, ScoreGt)
    IN  IF top_k # 0 THEN Take(sorted, top_k) ELSE sorted

\* VectorStore.search_by_paper
SearchByPaper(coll, ranking, paper_names, top_k) ==
    FanOut(coll, ranking, "paper_name", paper_names, top_k)

\* VectorStore.search_by_region_type
SearchByRegionType(coll, ranking, region_types, top_k) ==
    FanOut(coll, ranking, "region_type", region_types, top_k)

\* Evidence(...) built from one search result
Evidence(result) ==
    [chunk_id |-> result.chunk_id, paper_name |-> result.paper_name,
     region_id |-> result.region_id, region_type |-> result.region_type,
     score |-> result.score]

\* The keys of a defaultdict filled in list order: the values of field key
\* in order of first appearance.
RECURSIVE KeysInOrder(_, _, _)
KeysInOrder(evidence_chunks, key, seen) ==
    IF evidence_chunks = <<>> THEN seen
    ELSE LET k == Head(evidence_chunks)[key]
         IN  KeysInOrder(Tail(evidence_chunks), key,
                         IF \E i \in 1..Len(seen) : seen[i] = k
                         THEN seen ELSE Append(seen, k))

\* A slip: every group holds all the evidence.
GroupUnderEveryKey(evidence_chunks, key) ==
    [k \in {evidence_chunks[i][key] : i \in 1..Len(evidence_chunks)} |->
        evidence_chunks]

\* _group_by_paper and _group_by_region_type: key -> evidence with that key
GroupBy(evidence_chunks, key) ==
    [k \in {evidence_chunks[i][key] : i \in 1..Len(evidence_chunks)} |->
        SelectSeq(evidence_chunks, LAMBDA e : e[key] = k)]

\* top_k = top_k or config.TOP_K_RETRIEVAL; 0 stands for None
EffectiveTopK(top_k) == IF top_k = 0 THEN TopKDefault ELSE top_k

\* One search operation of the store as retrieve invokes it
SearchOp(op, values, top_k, filter_metadata) ==
    [op |-> op, values |-> values, top_k |-> top_k, filter_metadata |-> filter_metadata]

\* A slip: the region-type filter is looked at before the paper filter.
SearchRouteRegionTypesFirst(top_k, filter_papers, filter_region_types) ==
    LET filter_metadata ==
            IF Len(filter_region_types) = 1
            THEN <<"region_type", filter_region_types[1]>>
            ELSE IF Len(filter_papers) = 1 THEN <<"paper_name", filter_papers[1]>>
                 ELSE <<>>
    IN  IF Len(filter_region_types) > 1
        THEN SearchOp("search_by_region_type", filter_region_types, top_k, <<>>)
        ELSE IF Len(filter_papers) > 1
             THEN SearchOp("search_by_paper", filter_papers, top_k, <<>>)
             ELSE SearchOp("search", <<>>, top_k * 2, filter_metadata)

\* "Build filter metadata" and "Perform retrieval": the search operation
\* retrieve invokes.  An absent filter and an empty list are both <<>>
\* (both are falsy).
SearchRoute(top_k, filter_papers, filter_region_types) ==
    LET filter_metadata ==
            IF Len(filter_papers) = 1 THEN <<"paper_name", filter_papers[1]>>
            ELSE IF Len(filter_region_types) = 1
                 THEN <<"region_type", filter_region_types[1]>>
                 ELSE <<>>
    IN  IF Len(filter_papers) > 1
        THEN SearchOp("search_by_paper", filter_papers, top_k, <<>>)
        ELSE IF Len(filter_region_types) > 1
             THEN SearchOp("search_by_region_type", filter_region_types, top_k, <<>>)
             ELSE SearchOp("search", <<>>, top_k * 2, filter_metadata)

\* The store carrying out a search operation
RunSearch(coll, ranking, search) ==
    IF search.op = "search_by_paper"
    THEN SearchByPaper(coll, ranking, search.values, search.top_k)
    ELSE IF search.op = "search_by_region_type"
         THEN SearchByRegionType(coll, ranking, search.values, search.top_k)
         ELSE Search(coll, ranking, search.top_k, search.filter_metadata)

\* The search of retrieve: the candidate list, chosen by the filters
SearchCandidates(coll, ranking, top_k_arg, filter_papers, filter_region_types) ==
    RunSearch(coll, ranking,
              SearchRoute(EffectiveTopK(top_k_arg), filter_papers, filter_region_types))

\* A slip: the candidates are diversified whatever diversity_lambda is.
AlwaysDiversified(found, top_k, diversity_lambda) ==
    DiversifyResults(found, top_k, diversity_lambda)

\* "Apply diversity sampling if needed"; diversity_lambda is in tenths.
DiversitySampling(found, top_k, diversity_lambda) ==
    IF diversity_lambda > 0 /\ Len(found) > top_k
    THEN DiversifyResults(found, top_k, diversity_lambda)
    ELSE Take(found, top_k)

\* RAGRetriever.retrieve
Retrieve(coll, ranking, top_k_arg, filter_papers, filter_region_types, diversity_lambda) ==
    LET top_k == EffectiveTopK(top_k_arg)
        found == SearchCandidates(coll, ranking, top_k_arg, filter_papers,
                                  filter_region_types)
        results == DiversitySampling(found, top_k, diversity_lambda)
        evidence_chunks == [i \in 1..Len(results) |-> Evidence(results[i])]
    IN  [evidence_chunks |-> evidence_chunks,
         papers_searched |-> KeysInOrder(evidence_chunks, "paper_name", <<>>),
         total_chunks    |-> Len(evidence_chunks),
         by_paper        |-> GroupBy(evidence_chunks, "paper_name"),
         by_region_type  |-> GroupBy(evidence_chunks, "region_type")]

\* The arguments a caller passes
TopKArgs == 0..MaxTopK
PaperFilters == {<<>>, <<"P1">>, <<"P2">>, <<"P1", "P2">>, <<"P1", "P1">>}
RegionTypeFilters == {<<>>, <<"table">>, <<"text", "table">>}
DefaultLambda == 5

\* A call on the store: the operation, the paper it names, how many chunks
\* it reports as deleted, and the chunk_ids of the results it returns.
StoreCall(op, paper, deleted, ids) ==
    [op |-> op, paper_name |-> paper, deleted |-> deleted, ids |-> ids]

NoStoreCall == StoreCall("none", "", 0, <<>>)

\* collection.get(where={'paper_name': paper_name})['ids']
IdsOfPaper(coll, paper) ==
    LET found == SelectSeq(coll, LAMBDA v : v.paper_name = paper)
    IN  [i \in 1..Len(found) |-> found[i].chunk_id]

\* A slip: the whole collection is dropped.
DeleteEverything(coll, ids) == <<>>

\* collection.delete(ids=ids)
DeleteIds(coll, ids) ==
    SelectSeq(coll, LAMBDA v : \A i \in 1..Len(ids) : v.chunk_id # ids[i])

StoreInit == collection = <<>> /\ store_call = NoStoreCall

StoreIdle == collection = <<>> /\ store_call = NoStoreCall

RetrieveInit ==
    /\ r_top_k = 0
    /\ r_filter_papers = <<>>
    /\ r_filter_region_types = <<>>
    /\ r_lambda = 0
    /\ retrieval_result = "none"
    /\ r_searches = <<>>
    /\ rpc = "call"

RetrieveIdle ==
    /\ r_top_k = 0
    /\ r_filter_papers = <<>>
    /\ r_filter_region_types = <<>>
    /\ r_lambda = 0
    /\ retrieval_result = "none"
    /\ r_searches = <<>>
    /\ rpc = "idle"

\* VectorStore.add_chunks(chunks) with a non-empty list; the papers are
\* indexed before the question is asked.
AddChunks ==
    /\ rpc # "done" /\ apc # "done"
    /\ \E batch \in Batches :
           /\ Len(collection) + Len(batch) <= MaxIndex
           /\ collection' = AddAll(collection, batch)
    /\ store_call' = StoreCall("add_chunks", "", 0, <<>>)
    /\ UNCHANGED <<retrieveVars, answerVars>>
    /\ UNCHANGED <<chunkVars, orderVars, mmrVars, multiHopVars, cacheVars, vlmVars>>

\* RAGRetriever.retrieve(query, top_k, filter_papers, filter_region_types,
\* diversity_lambda)
RetrieveCall ==
    /\ rpc = "call"
    /\ \E top_k \in TopKArgs, filter_papers \in PaperFilters,
          filter_region_types \in RegionTypeFilters, lambda \in {0, DefaultLambda},
          ranking \in Rankings(collection) :
           /\ r_top_k' = top_k
           /\ r_filter_papers' = filter_papers
           /\ r_filter_region_types' = filter_region_types
           /\ r_lambda' = lambda
           /\ retrieval_result' = Retrieve(collection, ranking, top_k, filter_papers,
                                           filter_region_types, lambda)
           /\ r_searches' = <<SearchRoute(EffectiveTopK(top_k), filter_papers,
                                          filter_region_types)>>
    /\ rpc' = "done"
    /\ UNCHANGED <<storeVars, answerVars>>
    /\ UNCHANGED <<chunkVars, orderVars, mmrVars, multiHopVars, cacheVars, vlmVars>>

RetrieveNext == AddChunks \/ RetrieveCall

\* The papers a caller may name: the indexed ones and one that never is
PaperArgs == Papers \cup {"P3"}

\* VectorStore.search(query, top_k, filter_metadata)
SearchStore ==
    /\ \E top_k \in TopKArgs, ranking \in Rankings(collection),
          filter_metadata \in {<<>>} \cup {<<"paper_name", p>> : p \in Papers} :
           LET results == Search(collection, ranking, top_k, filter_metadata)
           IN  store_call' = StoreCall("search", "", 0,
                                       [i \in 1..Len(results) |-> results[i].chunk_id])
    /\ UNCHANGED collection
    /\ UNCHANGED <<retrieveVars, answerVars>>
    /\ UNCHANGED <<chunkVars, orderVars, mmrVars, multiHopVars, cacheVars, vlmVars>>

\* VectorStore.delete_paper(paper_name)
DeletePaper ==
    /\ \E paper \in PaperArgs :
           LET ids == IdsOfPaper(collection, paper)
           IN  /\ collection' = IF ids # <<>> THEN DeleteIds(collection, ids)
                                 ELSE collection
               /\ store_call' = StoreCall("delete_paper", paper, Len(ids), <<>>)
    /\ UNCHANGED <<retrieveVars, answerVars>>
    /\ UNCHANGED <<chunkVars, orderVars, mmrVars, multiHopVars, cacheVars, vlmVars>>

\* VectorStore.clear(): the collection is deleted and created anew
ClearStore ==
    /\ collection' = <<>>
    /\ store_call' = StoreCall("clear", "", 0, <<>>)
    /\ UNCHANGED <<retrieveVars, answerVars>>
    /\ UNCHANGED <<chunkVars, orderVars, mmrVars, multiHopVars, cacheVars, vlmVars>>

\* A fan-out search on the store: the operation, the filter values, top_k
\* (0: not given), and the chunk_id and score of every result.
FanOutCall(op, values, top_k, results) ==
    [op |-> op, values |-> values, top_k |-> top_k,
     results |-> [i \in 1..Len(results) |->
                     [chunk_id |-> results[i].chunk_id, score |-> results[i].score]]]

\* The lists of filter values a caller may pass: one or two values, which
\* may be the same
PaperLists == {<<p>> : p \in Papers} \cup {<<p, q>> : p, q \in Papers}
StoredTypes == {TypeOfRegion(r) : r \in RegionIds}
RegionTypeLists == {<<t>> : t \in StoredTypes} \cup {<<t, u>> : t, u \in StoredTypes}

\* No search has been made on the store yet
Indexing == store_call.op \in {"none", "add_chunks"}

\* VectorStore.search_by_paper(query, paper_names, top_k)
SearchByPaperStore ==
    /\ Indexing
    /\ \E top_k \in TopKArgs, ranking \in Rankings(collection),
          paper_names \in PaperLists :
           store_call' = FanOutCall("search_by_paper", paper_names, top_k,
                                    SearchByPaper(collection, ranking, paper_names, top_k))
    /\ UNCHANGED collection
    /\ UNCHANGED <<retrieveVars, answerVars>>
    /\ UNCHANGED <<chunkVars, orderVars, mmrVars, multiHopVars, cacheVars, vlmVars>>

\* VectorStore.search_by_region_type(query, region_types, top_k)
SearchByRegionTypeStore ==
    /\ Indexing
    /\ \E top_k \in TopKArgs, ranking \in Rankings(collection),
          region_types \in RegionTypeLists :
           store_call' = FanOutCall("search_by_region_type", region_types, top_k,
                                    SearchByRegionType(collection, ranking,
                                                       region_types, top_k))
    /\ UNCHANGED collection
    /\ UNCHANGED <<retrieveVars, answerVars>>
    /\ UNCHANGED <<chunkVars, orderVars, mmrVars, multiHopVars, cacheVars, vlmVars>>

StoreNext == AddChunks \/ SearchStore \/ DeletePaper \/ ClearStore

\* The papers are indexed before the fan-out search under study is made.
IndexChunks == Indexing /\ AddChunks

FanOutNext == IndexChunks \/ SearchByPaperStore \/ SearchByRegionTypeStore

----------------------------------------------------------------------------
(* AnswerEngine.answer_question *)

\* An answer text is a sequence of phrases; 'marker in text' holds when the
\* phrases of the marker occur in it consecutively.
Contains(txt, marker) ==
    \E i \in 0..(Len(txt) - Len(marker)) :
        SubSeq(txt, i + 1, i + Len(marker)) = marker

NoEvidenceMessage == <<"No relevant evidence found in the indexed papers.">>

\* f"Error generating answer: {str(e)}"; the marker is its fixed part
ErrorGeneratingAnswer == <<"Error", "generating answer">>
ErrorCode402 == <<"Error", "code: 402">>
ErrorCode429 == <<"Error code: ", "429", " - rate limit exceeded">>
GenerationErrors == {<<"timeout">>, ErrorCode402, ErrorCode429}
\* A slip: the text of the exception alone is returned.
ErrorTextOnly(e) == e

ErrorAnswer(e) == ErrorGeneratingAnswer \o <<": ">> \o e

\* What the model may write (response.content)
Contents == {<<>>, <<"ok">>, <<"Error", "ok">>, <<"ok">> \o ErrorGeneratingAnswer,
             ErrorCode402 \o <<"ok">>}

\* What self.llm.invoke does: returns a content or raises
LlmOutcomes == {<<"returns", c>> : c \in Contents} \cup {<<"raises", e>> : e \in GenerationErrors}

\* _generate_answer, given what the invocation does
GenerateAnswer(outcome) ==
    IF outcome[1] = "returns" THEN outcome[2] ELSE ErrorAnswer(outcome[2])

\* _extract_sources: one citation per paper, sorted by paper name
ExtractSources(evidence_chunks) ==
    LET names == {evidence_chunks[i].paper_name : i \in 1..Len(evidence_chunks)}
    IN  (IF "P1" \in names THEN <<"P1">> ELSE <<>>) \o
        (IF "P2" \in names THEN <<"P2">> ELSE <<>>)

\* A slip: the evidence is not looked at before generating.
EvidenceAssumed(retrieved) == FALSE

\* if not retrieval_result.evidence_chunks
NoEvidence(retrieved) == retrieved.evidence_chunks = <<>>

\* The Answer returned without evidence
NoEvidenceAnswer ==
    [answer |-> NoEvidenceMessage, evidence |-> <<>>, sources |-> <<>>,
     has_evidence |-> FALSE,
     retrieval_stats |-> [total_chunks |-> 0, papers_searched |-> <<>>]]

\* The Answer returned with evidence
EvidenceAnswer(retrieved, answer_text) ==
    [answer |-> answer_text, evidence |-> retrieved.evidence_chunks,
     sources |-> ExtractSources(retrieved.evidence_chunks),
     has_evidence |-> TRUE,
     retrieval_stats |->
         [total_chunks |-> retrieved.total_chunks,
          papers_searched |-> retrieved.papers_searched,
          by_paper |-> [p \in DOMAIN retrieved.by_paper |-> Len(retrieved.by_paper[p])],
          by_region_type |-> [t \in DOMAIN retrieved.by_region_type |->
                                 Len(retrieved.by_region_type[t])]]]

AnswerInit ==
    /\ retrieved_evidence = "none"
    /\ answer = "none"
    /\ llm_invocations = 0
    /\ llm_raised = FALSE
    /\ apc = "call"

AnswerIdle ==
    /\ retrieved_evidence = "none"
    /\ answer = "none"
    /\ llm_invocations = 0
    /\ llm_raised = FALSE
    /\ apc = "idle"

\* AnswerEngine.answer_question(question, top_k, filter_papers,
\* filter_region_types): retrieve with the default diversity_lambda, return
\* the no-evidence Answer or generate one.
AnswerQuestion ==
    /\ apc = "call" /\ mhpc \in {"idle", "call"}
    /\ \E top_k \in TopKArgs, filter_papers \in PaperFilters,
          filter_region_types \in RegionTypeFilters,
          ranking \in Rankings(collection) :
           /\ retrieved_evidence' = Retrieve(collection, ranking, top_k, filter_papers,
                                             filter_region_types, DefaultLambda)
           /\ IF NoEvidence(retrieved_evidence')
              THEN /\ answer' = NoEvidenceAnswer
                   /\ UNCHANGED <<llm_invocations, llm_raised>>
              ELSE \E outcome \in LlmOutcomes :
                       /\ answer' = EvidenceAnswer(retrieved_evidence',
                                                   GenerateAnswer(outcome))
                       /\ llm_invocations' = llm_invocations + 1
                       /\ llm_raised' = (outcome[1] = "raises")
    /\ apc' = "done"
    /\ UNCHANGED <<storeVars, retrieveVars>>
    /\ UNCHANGED <<chunkVars, orderVars, mmrVars, multiHopVars, cacheVars, vlmVars>>

AnswerNext == AddChunks \/ AnswerQuestion

----------------------------------------------------------------------------
(* AnswerEngine.multi_hop_reasoning *)

\* str.lower(), phrase by phrase
LowerPhrase(p) ==
    IF p = "Sufficient Information" THEN "sufficient information"
    ELSE IF p = "Error" THEN "error"
    ELSE IF p = "Rate limit" THEN "rate limit"
    ELSE p

Lower(txt) == [i \in 1..Len(txt) |-> LowerPhrase(txt[i])]

\* "sufficient information" in intermediate_answer.lower()
IsSufficient(intermediate_answer) ==
    Contains(Lower(intermediate_answer), <<"sufficient information">>)

\* What the model may do when asked for an answer during multi-hop
\* reasoning: write one of two contents, or fail
HopOutcomes ==
    {<<"returns", <<"ok">>>>, <<"returns", <<"Sufficient Information">>>>,
     <<"raises", <<"timeout">>>>}

\* What the model may do when asked for a follow-up query
FollowupOutcomes == {<<"returns", "followup">>, <<"raises", "timeout">>}

\* _generate_followup_query: the content, or the original question
GenerateFollowupQuery(original_question, outcome) ==
    IF outcome[1] = "returns" THEN outcome[2] ELSE original_question

\* The index states multi-hop reasoning is studied on: empty, or one chunk
HopIndexes == {<<>>} \cup {AddAll(<<>>, <<c>>) : c \in NewChunks}

\* top_k=5 in the retrieval of each hop
HopTopK == 5

\* One invocation of self.llm.invoke, as logged in mh_events
LlmEvent(kind, outcome) == [kind |-> kind, raised |-> outcome[1] = "raises"]

RetrieveEvent == [kind |-> "retrieve", raised |-> FALSE]

\* A slip: the prefix counts the hop that is being left as well.
MultiHopTextOneMore(hops, final_answer) ==
    <<"Multi-hop Reasoning (", ToString(hops + 1), " hops):\n\n">> \o final_answer

\* f"Multi-hop Reasoning ({len(reasoning_chain)} hops):\n\n{final_answer}"
MultiHopText(hops, final_answer) ==
    <<"Multi-hop Reasoning (", ToString(hops), " hops):\n\n">> \o final_answer

\* The Answer multi_hop_reasoning returns
MultiHopAnswer(evidence, chain, final_answer) ==
    [answer |-> MultiHopText(Len(chain), final_answer),
     evidence |-> evidence,
     sources |-> ExtractSources(evidence),
     has_evidence |-> TRUE,
     retrieval_stats |->
         [total_chunks |-> Len(evidence),
          reasoning_hops |-> Len(chain),
          papers_searched |-> {evidence[i].paper_name : i \in 1..Len(evidence)}]]

MultiHopInit ==
    /\ mh_max_hops = 0
    /\ hop = 0
    /\ current_query = "question"
    /\ all_evidence = <<>>
    /\ reasoning_chain = <<>>
    /\ mh_events = <<>>
    /\ mh_answer = "none"
    /\ mhpc = "call"

MultiHopIdle ==
    /\ mh_max_hops = 0
    /\ hop = 0
    /\ current_query = "question"
    /\ all_evidence = <<>>
    /\ reasoning_chain = <<>>
    /\ mh_events = <<>>
    /\ mh_answer = "none"
    /\ mhpc = "idle"

\* multi_hop_reasoning(question, max_hops) is entered: the for loop starts,
\* or is skipped when range(max_hops) is empty.
MultiHopCall ==
    /\ mhpc = "call" /\ apc # "done"
    /\ \E max_hops \in 0..MaxHops :
           /\ mh_max_hops' = max_hops
           /\ mhpc' = IF max_hops > 0 THEN "loop" ELSE "final"
    /\ UNCHANGED <<hop, current_query, all_evidence, reasoning_chain, mh_events, mh_answer>>
    /\ UNCHANGED <<chunkVars, orderVars, mmrVars, storeVars, retrieveVars, answerVars, cacheVars, vlmVars>>

\* One iteration of the for loop.  The stored distances are taken for every
\* query of the call.
Hop ==
    /\ mhpc = "loop"
    /\ \E ranking \in Rankings(collection), outcome \in HopOutcomes,
          followup \in FollowupOutcomes :
           LET retrieval == Retrieve(collection, ranking, HopTopK, <<>>, <<>>,
                                     DefaultLambda)
               intermediate_answer == GenerateAnswer(outcome)
               step == [hop |-> hop + 1, query |-> current_query,
                        answer |-> intermediate_answer]
           IN  IF NoEvidence(retrieval)
               THEN /\ mh_events' = Append(mh_events, RetrieveEvent)
                    /\ mhpc' = "final"
                    /\ UNCHANGED <<hop, current_query, all_evidence, reasoning_chain>>
               ELSE /\ all_evidence' = all_evidence \o retrieval.evidence_chunks
                    /\ reasoning_chain' = Append(reasoning_chain, step)
                    /\ IF IsSufficient(intermediate_answer)
                       THEN /\ mh_events' = mh_events \o
                                   <<RetrieveEvent, LlmEvent("generate", outcome)>>
                            /\ mhpc' = "final"
                            /\ UNCHANGED <<hop, current_query>>
                       ELSE /\ hop' = hop + 1
                            /\ mhpc' = IF hop + 1 < mh_max_hops THEN "loop" ELSE "final"
                            /\ IF hop < mh_max_hops - 1
                               THEN /\ current_query' =
                                           GenerateFollowupQuery("question", followup)
                                    /\ mh_events' = mh_events \o
                                           <<RetrieveEvent, LlmEvent("generate", outcome),
                                             LlmEvent("followup", followup)>>
                               ELSE /\ UNCHANGED current_query
                                    /\ mh_events' = mh_events \o
                                           <<RetrieveEvent, LlmEvent("generate", outcome)>>
    /\ UNCHANGED <<mh_max_hops, mh_answer>>
    /\ UNCHANGED <<chunkVars, orderVars, mmrVars, storeVars, retrieveVars, answerVars, cacheVars, vlmVars>>

\* The final synthesis over all accumulated evidence, and the return
FinalSynthesis ==
    /\ mhpc = "final"
    /\ \E outcome \in HopOutcomes :
           /\ mh_events' = Append(mh_events, LlmEvent("final", outcome))
           /\ mh_answer' = MultiHopAnswer(all_evidence, reasoning_chain,
                                          GenerateAnswer(outcome))
    /\ mhpc' = "done"
    /\ UNCHANGED <<mh_max_hops, hop, current_query, all_evidence, reasoning_chain>>
    /\ UNCHANGED <<chunkVars, orderVars, mmrVars, storeVars, retrieveVars, answerVars, cacheVars, vlmVars>>

\* The steps of multi_hop_reasoning
MultiHopNext == MultiHopCall \/ Hop \/ FinalSynthesis

\* The engine serves one call: answer_question or multi_hop_reasoning
EngineNext == AnswerQuestion \/ MultiHopCall \/ Hop \/ FinalSynthesis

----------------------------------------------------------------------------
(* AnswerCache *)

Questions == {"q1", "q2"}

\* The answer texts of the Answer objects handed to set
AnswerTexts == Contents \cup {NoEvidenceMessage} \cup {ErrorAnswer(e) : e \in GenerationErrors}

\* 'Error generating answer' in answer or 'Error code: 402' in answer
HasErrorMarker(answer_text) ==
    Contains(answer_text, ErrorGeneratingAnswer) \/ Contains(answer_text, ErrorCode402)

\* A slip: only the first marker is looked for.
HasFirstMarkerOnly(answer_text) == Contains(answer_text, ErrorGeneratingAnswer)

\* The marker test has and get apply
IsErrorAnswer(answer_text) == HasErrorMarker(answer_text)

\* CachedAnswer(...); only the answer text is kept
CachedAnswer(answer_text) == [answer |-> answer_text]

\* A slip: an existing entry is kept.
PutIfAbsent(c, question, cached_answer) ==
    [q \in DOMAIN c \cup {question} |-> IF q \in DOMAIN c THEN c[q] ELSE cached_answer]

\* self.cache[question] = cached_answer
Put(c, question, cached_answer) ==
    [q \in DOMAIN c \cup {question} |-> IF q = question THEN cached_answer ELSE c[q]]

\* The empty dict
EmptyCache == [q \in {} |-> CachedAnswer(<<>>)]

\* AnswerCache.get: None (<<>>) or the cached answer (<<cached_answer>>)
Get(c, question) ==
    IF question \notin DOMAIN c THEN <<>>
    ELSE IF c[question].answer # <<>> /\ IsErrorAnswer(c[question].answer)
         THEN <<>>
         ELSE <<c[question]>>

\* A slip: every stored question counts as cached.
HasAnyEntry(c, question) == question \in DOMAIN c

\* AnswerCache.get_stats; the list of keys is taken as a set
GetStats(c) == [total_cached |-> Cardinality(DOMAIN c), questions |-> DOMAIN c]

\* AnswerCache.has
Has(c, question) ==
    IF question \notin DOMAIN c THEN FALSE
    ELSE IF IsErrorAnswer(c[question].answer) THEN FALSE
         ELSE TRUE

\* The record of one call on the cache: its arguments, what it returned and
\* whether it rewrote the cache file
CacheCall(op, question, answer_text, returned, saved) ==
    [op |-> op, question |-> question, answer |-> answer_text,
     returned |-> returned, saved |-> saved]

NoCacheCall == CacheCall("none", "None", <<>>, <<>>, FALSE)

\* No cache file
NoFile == [exists |-> FALSE, valid |-> FALSE, data |-> EmptyCache]

\* A fresh AnswerCache on a path with no cache file
CacheInit ==
    /\ cache = EmptyCache
    /\ cache_file = NoFile
    /\ cache_call = NoCacheCall

CacheIdle ==
    /\ cache = EmptyCache
    /\ cache_file = NoFile
    /\ cache_call = NoCacheCall

\* What a write of the cache file may do: complete; fail before the file is
\* opened; fail after open(..., 'w') has truncated it
SaveOutcomes == {"written", "failed", "truncated"}

\* _save_cache: the file after the attempt to write mapping c; a failure is
\* logged and not raised.
SaveCache(file, c, outcome) ==
    IF outcome = "written" THEN [exists |-> TRUE, valid |-> TRUE, data |-> c]
    ELSE IF outcome = "truncated"
         THEN [exists |-> TRUE, valid |-> FALSE, data |-> EmptyCache]
         ELSE file

\* _load_cache: the mapping a new instance starts with; no file or a file
\* json.load cannot read gives the empty mapping.
LoadCache(file) == IF file.exists /\ file.valid THEN file.data ELSE EmptyCache

\* AnswerCache.set(question, answer_obj)
CacheSet ==
    /\ \E question \in Questions, answer_text \in AnswerTexts, outcome \in SaveOutcomes :
           /\ cache' = Put(cache, question, CachedAnswer(answer_text))
           /\ cache_file' = SaveCache(cache_file, cache', outcome)
           /\ cache_call' = CacheCall("set", question, answer_text, <<>>,
                                      outcome = "written")
    /\ UNCHANGED <<chunkVars, orderVars, mmrVars, storeVars, retrieveVars, answerVars, multiHopVars, vlmVars>>

\* AnswerCache.get(question)
CacheGet ==
    /\ \E question \in Questions :
           cache_call' = CacheCall("get", question, <<>>, Get(cache, question), FALSE)
    /\ UNCHANGED <<cache, cache_file>>
    /\ UNCHANGED <<chunkVars, orderVars, mmrVars, storeVars, retrieveVars, answerVars, multiHopVars, vlmVars>>

\* AnswerCache.has(question)
CacheHas ==
    /\ \E question \in Questions :
           cache_call' = CacheCall("has", question, <<>>, Has(cache, question), FALSE)
    /\ UNCHANGED <<cache, cache_file>>
    /\ UNCHANGED <<chunkVars, orderVars, mmrVars, storeVars, retrieveVars, answerVars, multiHopVars, vlmVars>>

\* AnswerCache.get_stats()
CacheGetStats ==
    /\ cache_call' = CacheCall("get_stats", "None", <<>>, GetStats(cache), FALSE)
    /\ UNCHANGED <<cache, cache_file>>
    /\ UNCHANGED <<chunkVars, orderVars, mmrVars, storeVars, retrieveVars, answerVars, multiHopVars, vlmVars>>

\* AnswerCache.clear()
CacheClear ==
    /\ cache' = EmptyCache
    /\ \E outcome \in SaveOutcomes :
           /\ cache_file' = SaveCache(cache_file, cache', outcome)
           /\ cache_call' = CacheCall("clear", "None", <<>>, <<>>, outcome = "written")
    /\ UNCHANGED <<chunkVars, orderVars, mmrVars, storeVars, retrieveVars, answerVars, multiHopVars, vlmVars>>

\* AnswerCache(cache_file): a new instance loads what the file holds
CacheLoad ==
    /\ cache' = LoadCache(cache_file)
    /\ cache_call' = CacheCall("load", "None", <<>>, <<>>, FALSE)
    /\ UNCHANGED cache_file
    /\ UNCHANGED <<chunkVars, orderVars, mmrVars, storeVars, retrieveVars, answerVars, multiHopVars, vlmVars>>

\* The question lists handed to update_all
QuestionLists == UNION {[1..n -> Questions] : n \in 1..MaxQuestions}

\* What answer_engine.answer_question may do for one question of the batch:
\* raise, or return an Answer with this text
BatchOutcomes ==
    {<<"raises">>, <<"returns", <<"ok">>>>, <<"returns", NoEvidenceMessage>>}

\* A slip: the first failure ends the batch.
RECURSIVE UpdateAllAborting(_, _, _, _)
UpdateAllAborting(state, questions, outcomes, saves) ==
    IF questions = <<>> \/ Head(outcomes)[1] = "raises" THEN state
    ELSE LET c == Put(state.cache, Head(questions), CachedAnswer(Head(outcomes)[2]))
         IN  UpdateAllAborting([cache |-> c,
                                file  |-> SaveCache(state.file, c, Head(saves))],
                               Tail(questions), Tail(outcomes), Tail(saves))

\* The loop of update_all over the questions left: the cache and the file
\* after it.  A question whose answer_question call raises is logged and
\* skipped; the others are set, which rewrites the file each time.
RECURSIVE UpdateAll(_, _, _, _)
UpdateAll(state, questions, outcomes, saves) ==
    IF questions = <<>> THEN state
    ELSE IF Head(outcomes)[1] = "raises"
         THEN UpdateAll(state, Tail(questions), Tail(outcomes), Tail(saves))
         ELSE LET c == Put(state.cache, Head(questions),
                           CachedAnswer(Head(outcomes)[2]))
              IN  UpdateAll([cache |-> c,
                             file  |-> SaveCache(state.file, c, Head(saves))],
                            Tail(questions), Tail(outcomes), Tail(saves))

\* AnswerCache.update_all(questions, answer_engine)
CacheUpdateAll ==
    /\ \E questions \in QuestionLists :
         \E outcomes \in [1..Len(questions) -> BatchOutcomes],
            saves \in [1..Len(questions) -> SaveOutcomes] :
             LET after == UpdateAll([cache |-> cache, file |-> cache_file],
                                    questions, outcomes, saves)
             IN  /\ cache' = after.cache
                 /\ cache_file' = after.file
                 /\ cache_call' = CacheCall("update_all", questions, outcomes, <<>>, FALSE)
    /\ UNCHANGED <<chunkVars, orderVars, mmrVars, storeVars, retrieveVars, answerVars, multiHopVars, vlmVars>>

CacheBatchNext == CacheUpdateAll \/ CacheClear

CacheNext ==
    CacheSet \/ CacheGet \/ CacheHas \/ CacheGetStats \/ CacheClear \/ CacheLoad

----------------------------------------------------------------------------
(* VLMExtractor._call_vlm *)

\* str(e) of the exceptions the API call may raise, as phrases
VlmErrors ==
    {<<"Error code: ", "429", " - too many requests">>,
     <<"Rate limit", " reached for requests">>,
     <<"provider returned error: ", "rate limit", " exceeded">>,
     <<"Error code: ", "402", " - insufficient credits">>,
     <<"Connection error.">>}

\* '429' in error_str or 'rate limit' in error_str.lower()
IsRateLimit(error_str) ==
    \/ Contains(error_str, <<"429">>)
    \/ Contains(Lower(error_str), <<"rate limit">>)

\* A slip: the wait does not grow.
ConstantWait(n) == (2 ^ 0) * 2

\* wait_time = (2 ** attempt) * 2
WaitTime(n) == (2 ^ n) * 2

\* One API call of the loop and how it went
AttemptEvent(n, failed, error_str) ==
    [kind |-> "attempt", attempt |-> n, failed |-> failed, error |-> error_str,
     seconds |-> 0]

\* time.sleep(wait_time) after attempt n
SleepEvent(n, wait_time) ==
    [kind |-> "sleep", attempt |-> n, failed |-> FALSE, error |-> <<>>,
     seconds |-> wait_time]

NoOutcome == [kind |-> "none", error |-> <<>>]
Returned == [kind |-> "returned", error |-> <<>>]
Raised(error_str) == [kind |-> "raised", error |-> error_str]

\* raise Exception(f"Failed after {max_retries} retries")
FailedAfterRetries(max_retries) ==
    <<"Failed after ", ToString(max_retries), " retries">>

VlmInit ==
    /\ vlm_max_retries = 0
    /\ attempt = 0
    /\ vlm_log = <<>>
    /\ vlm_outcome = NoOutcome
    /\ vpc = "call"

VlmIdle ==
    /\ vlm_max_retries = 0
    /\ attempt = 0
    /\ vlm_log = <<>>
    /\ vlm_outcome = NoOutcome
    /\ vpc = "idle"

\* _call_vlm(image, prompt, max_retries): for attempt in range(max_retries)
VlmCall ==
    /\ vpc = "call"
    /\ \E max_retries \in 0..MaxRetries : vlm_max_retries' = max_retries
    /\ attempt' = 0
    /\ vpc' = "loop"
    /\ UNCHANGED <<vlm_log, vlm_outcome>>
    /\ UNCHANGED <<chunkVars, orderVars, mmrVars, storeVars, retrieveVars, answerVars,
                   multiHopVars, cacheVars>>

\* One iteration of the loop: the API call returns, or raises and the except
\* clause sleeps and continues, or re-raises.
VlmAttempt ==
    /\ vpc = "loop"
    /\ attempt < vlm_max_retries
    /\ \/ /\ vlm_log' = Append(vlm_log, AttemptEvent(attempt, FALSE, <<>>))
          /\ vlm_outcome' = Returned
          /\ vpc' = "done"
          /\ UNCHANGED attempt
       \/ \E error_str \in VlmErrors :
              IF IsRateLimit(error_str) /\ attempt < vlm_max_retries - 1
              THEN /\ vlm_log' = vlm_log \o <<AttemptEvent(attempt, TRUE, error_str),
                                               SleepEvent(attempt, WaitTime(attempt))>>
                   /\ attempt' = attempt + 1
                   /\ UNCHANGED <<vlm_outcome, vpc>>
              ELSE /\ vlm_log' = Append(vlm_log, AttemptEvent(attempt, TRUE, error_str))
                   /\ vlm_outcome' = Raised(error_str)
                   /\ vpc' = "done"
                   /\ UNCHANGED attempt
    /\ UNCHANGED vlm_max_retries
    /\ UNCHANGED <<chunkVars, orderVars, mmrVars, storeVars, retrieveVars, answerVars,
                   multiHopVars, cacheVars>>

\* The loop ran out without an attempt returning or raising.
VlmExhausted ==
    /\ vpc = "loop"
    /\ attempt >= vlm_max_retries
    /\ vlm_outcome' = Raised(FailedAfterRetries(vlm_max_retries))
    /\ vpc' = "done"
    /\ UNCHANGED <<vlm_max_retries, attempt, vlm_log>>
    /\ UNCHANGED <<chunkVars, orderVars, mmrVars, storeVars, retrieveVars, answerVars,
                   multiHopVars, cacheVars>>

VlmNext == VlmCall \/ VlmAttempt \/ VlmExhausted

----------------------------------------------------------------------------
(* Claims about the reading order *)

\* The reading_order given to the region with this region_id.
OrderOf(id) ==
    LET k == CHOOSE k \in 1..Len(ordered_regions) : ordered_regions[k].region_id = id
    IN  ordered_regions[k].reading_order

PageRegions(page) == SelectSeq(regions, LAMBDA r : r.page_num = page)

\* C4: determine_reading_order returns exactly one OrderedRegion per input
\* region, the reading_order values are the distinct integers 0..n-1, and a
\* region on a lower page has a strictly smaller reading_order.
C4_TotalOrder ==
    opc = "done" =>
        LET n == Len(regions) IN
        /\ Len(ordered_regions) = n
        /\ \A i \in 1..n :
               Cardinality({k \in 1..Len(ordered_regions) :
                               ordered_regions[k].region_id = regions[i].region_id}) = 1
        /\ {ordered_regions[k].reading_order : k \in 1..Len(ordered_regions)} = 0..(n - 1)
        /\ \A i, j \in 1..n :
               regions[i].page_num < regions[j].page_num =>
                   OrderOf(regions[i].region_id) < OrderOf(regions[j].region_id)

\* C4 witness: a document with regions on two pages has been ordered.
C4_Witness ==
    /\ opc = "done"
    /\ \E i, j \in 1..Len(regions) : regions[i].page_num < regions[j].page_num

\* The key (type_priority, y1) as the claim words it.
C5_Priority(type) ==
    CASE type = "title" -> 0 [] type = "text" -> 1 [] type = "list" -> 2
      [] type = "table" -> 3 [] type = "figure" -> 4

C5_KeySmaller(r1, r2) ==
    \/ C5_Priority(r1.region_type) < C5_Priority(r2.region_type)
    \/ /\ C5_Priority(r1.region_type) = C5_Priority(r2.region_type)
       /\ r1.bbox[2] < r2.bbox[2]

C6_LeftColumnFirst ==
    opc = "done" =>
        \A page \in PageNums :
            LET columns == DetectColumns(PageRegions(page)) IN
            \A c, d \in 1..Len(columns) :
                FracLt(columns[c].x_center, columns[d].x_center) =>
                    \A i \in 1..Len(columns[c].regions), j \in 1..Len(columns[d].regions) :
                        OrderOf(columns[c].regions[i].region_id)
                            < OrderOf(columns[d].regions[j].region_id)

\* C6 witness: a page with two columns, the left one holding two regions whose
\* running mean decided where the column ends, has been ordered.
C6_Witness ==
    /\ opc = "done"
    /\ \E page \in PageNums :
           LET columns == DetectColumns(PageRegions(page)) IN
           /\ Len(columns) = 2
           /\ Len(columns[1].regions) = 2
           /\ XCenter(columns[1].regions[1]) # XCenter(columns[1].regions[2])

----------------------------------------------------------------------------
(* Claims about the MMR diversification *)

\* C7: applied to candidates with pairwise distinct chunk_ids, the output of
\* _diversify_results repeats no chunk_id, holds only candidates, and has
\* exactly min(top_k, number of candidates) entries.
C7_MmrNoDuplicates ==
    mpc = "done" =>
        /\ \A i, j \in 1..Len(selected) :
               selected[i].chunk_id = selected[j].chunk_id => i = j
        /\ \A i \in 1..Len(selected) :
               \E k \in 1..Len(candidates) : candidates[k] = selected[i]
        /\ Len(selected) = Min(mmr_top_k, Len(candidates))

\* C7 witness: the MMR loop chose among several remaining candidates and did
\* not end up with the first top_k of them.
C7_Witness ==
    /\ mpc = "done"
    /\ mmr_top_k >= 2
    /\ Len(candidates) > mmr_top_k + 1
    /\ mmr_lambda = 5
    /\ selected # SubSeq(candidates, 1, mmr_top_k)

----------------------------------------------------------------------------
(* Claims about retrieval, the answer engine and the answer cache *)

\* The number of stored chunks of a paper
IndexedChunksOf(paper) ==
    Cardinality({i \in 1..Len(collection) : collection[i].paper_name = paper})

\* C8: retrieve with filter_papers = [p] and no region-type filter returns
\* only evidence of paper p, whatever else is indexed: papers_searched is [p]
\* whenever p has an indexed chunk, and total_chunks is the smaller of top_k
\* and the number of indexed chunks of p.
C8_SinglePaperFilter ==
    (rpc = "done" /\ Len(r_filter_papers) = 1 /\ r_filter_region_types = <<>>) =>
        LET p == r_filter_papers[1]
            evidence_chunks == retrieval_result.evidence_chunks
        IN  /\ \A i \in 1..Len(evidence_chunks) : evidence_chunks[i].paper_name = p
            /\ IndexedChunksOf(p) >= 1 => retrieval_result.papers_searched = <<p>>
            /\ retrieval_result.total_chunks
                   = Min(EffectiveTopK(r_top_k), IndexedChunksOf(p))

\* C8 witness (scenario A): two chunks of P1 and one chunk of P2 are indexed
\* and retrieve(top_k = 2, filter_papers = ["P1"]) has returned two.
C8_Witness ==
    /\ rpc = "done"
    /\ r_filter_papers = <<"P1">> /\ r_filter_region_types = <<>>
    /\ r_top_k = 2 /\ r_lambda = DefaultLambda
    /\ IndexedChunksOf("P1") = 2 /\ IndexedChunksOf("P2") = 1
    /\ retrieval_result.total_chunks = 2

\* C9: when retrieval returns no evidence, answer_question returns the
\* no-evidence Answer (has_evidence false, the fixed message, empty evidence
\* and sources, total_chunks 0) and the model has not been invoked.
C9_NoEvidenceAnswer ==
    (apc = "done" /\ retrieved_evidence.evidence_chunks = <<>>) =>
        /\ answer.has_evidence = FALSE
        /\ answer.answer = <<"No relevant evidence found in the indexed papers.">>
        /\ answer.evidence = <<>>
        /\ answer.sources = <<>>
        /\ answer.retrieval_stats.total_chunks = 0
        /\ llm_invocations = 0

\* C9 witness: chunks are indexed, but none for the paper asked about, and
\* answer_question has returned.
C9_Witness ==
    /\ apc = "done"
    /\ collection # <<>>
    /\ retrieved_evidence.evidence_chunks = <<>>
    /\ answer.has_evidence = FALSE

\* C10: whenever the answer text stored for a question contains one of the
\* two error markers, has(question) is false and get(question) is absent,
\* both as the cache would answer now (so also right after the set that
\* stored it) and as the last has or get call on that question did answer.
C10_ErrorMasking ==
    \A q \in DOMAIN cache :
        HasErrorMarker(cache[q].answer) =>
            /\ Has(cache, q) = FALSE
            /\ Get(cache, q) = <<>>
            /\ (cache_call.op = "has" /\ cache_call.question = q)
                   => cache_call.returned = FALSE
            /\ (cache_call.op = "get" /\ cache_call.question = q)
                   => cache_call.returned = <<>>

\* C10 witness: has("q1") was called while the answer stored for q1 carried
\* the "Error code: 402" marker and not the other one.
C10_Witness ==
    /\ cache_call.op = "has" /\ cache_call.question = "q1"
    /\ "q1" \in DOMAIN cache
    /\ Contains(cache["q1"].answer, ErrorCode402)
    /\ ~Contains(cache["q1"].answer, ErrorGeneratingAnswer)

\* Whether some model invocation of the multi-hop call raised
SomeHopRaised == \E i \in 1..Len(mh_events) : mh_events[i].raised

\* The full error text starts with the marker the cache looks for
ErrorMarker == ErrorGeneratingAnswer \o <<": ">>

\* C11 as stated: if the model raises during answer_question or
\* multi_hop_reasoning, the returned Answer carries the error marker
\* "Error generating answer: ...".
C11_RaiseGivesErrorMarker ==
    /\ (apc = "done" /\ llm_raised) => Contains(answer.answer, ErrorMarker)
    /\ (mhpc = "done" /\ SomeHopRaised) => Contains(mh_answer.answer, ErrorMarker)

\* C11 amended: the call returns an Answer whatever the model does, and the
\* Answer carries the error marker, which the cache recognises, when the
\* generation that writes its text raised: the one generation of
\* answer_question, the final synthesis of multi_hop_reasoning.
C11_FinalRaiseGivesErrorMarker ==
    /\ (apc = "done" /\ llm_raised) =>
           /\ Contains(answer.answer, ErrorMarker)
           /\ HasErrorMarker(answer.answer)
    /\ (mhpc = "done" /\ mh_events[Len(mh_events)].raised) =>
           /\ Contains(mh_answer.answer, ErrorMarker)
           /\ HasErrorMarker(mh_answer.answer)

\* C11 witness: multi_hop_reasoning made a hop whose generation succeeded,
\* its final synthesis raised, and it has returned.
C11_Witness ==
    /\ mhpc = "done"
    /\ Len(reasoning_chain) >= 1
    /\ ~mh_events[2].raised
    /\ mh_events[Len(mh_events)].raised

AnsweredAt(questions, outcomes, q) ==
    {i \in 1..Len(questions) : questions[i] = q /\ outcomes[i][1] = "returns"}

\* C13: update_all goes through the questions in list order and a question
\* whose answer generation raises does not end the batch: every question
\* answered anywhere in the list, also after a failure, ends up cached with
\* its (last) new answer, and a question that was never answered keeps the
\* entry, or the absence of an entry, it had before.
C13_UpdateAllTolerant ==
    [][cache_call'.op = "update_all" =>
          \A q \in Questions :
              LET answered == AnsweredAt(cache_call'.question, cache_call'.answer, q)
              IN  IF answered = {}
                  THEN /\ q \in DOMAIN cache' <=> q \in DOMAIN cache
                       /\ q \in DOMAIN cache => cache'[q] = cache[q]
                  ELSE /\ q \in DOMAIN cache'
                       /\ cache'[q].answer = cache_call'.answer[SetMax(answered)][2]]_vars

\* C13 witness: update_all(["q1", "q2"]) found an entry for q1, failed on q1
\* and cached the answer of q2.
C13_Witness ==
    /\ cache_call.op = "update_all"
    /\ cache_call.question = <<"q1", "q2">>
    /\ cache_call.answer[1][1] = "raises"
    /\ cache_call.answer[2][1] = "returns"
    /\ DOMAIN cache = {"q1", "q2"}
    /\ cache["q2"].answer = cache_call.answer[2][2]
    /\ cache["q1"].answer # cache["q2"].answer

\* C14 (scenario B generalised, scaled to a window of ScenarioChunkSize
\* tokens and an overlap of ScenarioOverlap tokens): a text longer than
\* one window by at most half the overlap yields exactly 2 chunks, with
\* chunk_index 0 and 1 in that order, the second starting strictly before
\* the position where the first ends.
C14_TwoOverlappingChunks ==
    cpc = "done" =>
        /\ Len(chunks) = 2
        /\ chunks[1].chunk_index = 0 /\ chunks[2].chunk_index = 1
        /\ chunks[2].lo < chunks[1].hi

\* C15: when len(text)/4 is at most chunk_size, _chunk_text emits exactly
\* one chunk, with chunk_index 0 and the input text unchanged (surrounding
\* whitespace included).
C15_SingleChunkVerbatim ==
    (cpc = "done" /\ Len(text) <= chunk_size * CharsPerToken) =>
        /\ Len(chunks) = 1
        /\ chunks[1].chunk_index = 0
        /\ chunks[1].text = text

\* C15 witness: a text of exactly chunk_size*4 characters that begins and
\* ends with whitespace has been chunked.
C15_Witness ==
    /\ cpc = "done"
    /\ Len(text) = chunk_size * CharsPerToken
    /\ text[1] = " " /\ text[Len(text)] = "\n"
    /\ Len(chunks) = 1

\* The chunk ids two calls of _chunk_text could produce, for any paper and
\* region
IdArguments == PaperNames \X RegionNames \X (0..MaxIter)

\* C16: a chunk_id belongs to one (paper_name, region_id, chunk_index) only:
\* no other paper, region or index gives the chunk_id of a chunk of this
\* call; and within the call the chunk_index values are 0, 1, 2, ... without
\* gaps, so its chunk_ids are pairwise distinct.
C16_ChunkIdUnique ==
    /\ \A i \in 1..Len(chunks) :
           /\ chunks[i].chunk_index = i - 1
           /\ chunks[i].chunk_id = ChunkId(paper_name, region_id, chunks[i].chunk_index)
           /\ \A a \in IdArguments :
                  ChunkId(a[1], a[2], a[3]) = chunks[i].chunk_id =>
                      a = <<paper_name, region_id, chunks[i].chunk_index>>
    /\ \A i, j \in 1..Len(chunks) :
           chunks[i].chunk_id = chunks[j].chunk_id => i = j

\* C16 witness: a region of the paper whose name ends like a region id has
\* been split into two chunks, one window having been skipped as blank.
C16_Witness ==
    /\ cpc = "done"
    /\ Len(chunks) >= 2
    /\ Len(windows) > Len(chunks)
    /\ paper_name = <<"A", "_", "page", "1", "_", "region", "0">>
    /\ region_id = <<"page", "1", "_", "region", "1">>

----------------------------------------------------------------------------
(* Claims about diversity sampling *)

\* The evidence retrieve returns without diversification when the index ranks
\* its vectors as ranking does: the first top_k candidates, in search order.
PlainTopK(ranking) ==
    LET found == SearchCandidates(collection, ranking, r_top_k, r_filter_papers,
                                  r_filter_region_types)
        k     == Min(EffectiveTopK(r_top_k), Len(found))
    IN  [i \in 1..k |-> Evidence(found[i])]

\* C17: with diversity_lambda = 0, retrieve performs no diversification: the
\* evidence is the first top_k entries of the candidate list, in the order
\* the search returned them, which is by descending score.
C17_LambdaZeroPlainTopK ==
    (rpc = "done" /\ r_lambda = 0) =>
        LET evidence_chunks == retrieval_result.evidence_chunks
        IN  /\ \E ranking \in Rankings(collection) :
                   evidence_chunks = PlainTopK(ranking)
            /\ \A i, j \in 1..Len(evidence_chunks) :
                   i < j => evidence_chunks[i].score >= evidence_chunks[j].score

\* C17 witness: retrieve(top_k = 2, diversity_lambda = 0) over three indexed
\* chunks, where the default diversity_lambda returns other evidence
\* whatever the ranking of the index.
C17_Witness ==
    /\ rpc = "done" /\ r_lambda = 0 /\ r_top_k = 2
    /\ r_filter_papers = <<>> /\ r_filter_region_types = <<>>
    /\ Len(collection) = 3
    /\ retrieval_result.total_chunks = 2
    /\ \A ranking \in Rankings(collection) :
           Retrieve(collection, ranking, r_top_k, r_filter_papers,
                    r_filter_region_types, DefaultLambda).evidence_chunks
               # retrieval_result.evidence_chunks

\* The candidates are in descending order of score
SortedByScore ==
    \A i, j \in 1..Len(candidates) :
        i < j => candidates[i].score >= candidates[j].score

\* C18: with diversity_lambda = 1 (ten tenths) the MMR selection applied to
\* candidates sorted by descending score returns exactly the first top_k
\* candidates in that order, whatever their papers and regions and also
\* when scores are tied.
C18_LambdaOnePlainTopK ==
    (mpc = "done" /\ mmr_lambda = 10 /\ SortedByScore) =>
        selected = Take(candidates, mmr_top_k)

\* C18 witness: the MMR loop ran with diversity_lambda = 1 over sorted
\* candidates of which the second and third are tied, where the default
\* diversity_lambda selects otherwise.
C18_Witness ==
    /\ mpc = "done" /\ mmr_lambda = 10 /\ SortedByScore
    /\ mmr_top_k >= 2
    /\ Len(candidates) > mmr_top_k
    /\ candidates[2].score = candidates[3].score
    /\ candidates[1].score > candidates[Len(candidates)].score
    /\ DiversifyResults(candidates, mmr_top_k, DefaultLambda) # selected

----------------------------------------------------------------------------
(* Claims about the grouping of the evidence *)

\* grouped is a partition of evidence_chunks by field key: its keys are the
\* values present, each group holds the evidence with its key in result
\* order, and the groups together have as many entries as the evidence.
IsPartition(grouped, evidence_chunks, key) ==
    /\ DOMAIN grouped = {evidence_chunks[i][key] : i \in 1..Len(evidence_chunks)}
    /\ \A k \in DOMAIN grouped :
           /\ grouped[k] # <<>>
           /\ \A j \in 1..Len(grouped[k]) : grouped[k][j][key] = k
           /\ grouped[k] = SelectSeq(evidence_chunks, LAMBDA e : e[key] = k)
    /\ Cardinality(UNION {{<<k, j>> : j \in 1..Len(grouped[k])} : k \in DOMAIN grouped})
           = Len(evidence_chunks)

\* C19: in every result of retrieve, by_paper and by_region_type are
\* partitions of evidence_chunks under paper_name and region_type,
\* total_chunks is the number of evidence items, and papers_searched lists
\* the distinct paper names present in the evidence, without repetition,
\* whatever the requested filter.
C19_GroupsPartitionEvidence ==
    rpc = "done" =>
        LET evidence_chunks == retrieval_result.evidence_chunks
            papers_searched == retrieval_result.papers_searched
        IN  /\ IsPartition(retrieval_result.by_paper, evidence_chunks, "paper_name")
            /\ IsPartition(retrieval_result.by_region_type, evidence_chunks, "region_type")
            /\ retrieval_result.total_chunks = Len(evidence_chunks)
            /\ \A i, j \in 1..Len(papers_searched) :
                   papers_searched[i] = papers_searched[j] => i = j
            /\ {papers_searched[i] : i \in 1..Len(papers_searched)}
                   = {evidence_chunks[i].paper_name : i \in 1..Len(evidence_chunks)}

\* C19 witness: retrieve with filter_papers = ["P1", "P2"] has returned
\* several chunks of two region types, all of them of P1.
C19_Witness ==
    /\ rpc = "done"
    /\ r_filter_papers = <<"P1", "P2">>
    /\ retrieval_result.total_chunks >= 2
    /\ retrieval_result.papers_searched = <<"P1">>
    /\ DOMAIN retrieval_result.by_region_type = {"table", "text"}

----------------------------------------------------------------------------
(* Claims about the retry policy of the vision-extraction call *)

\* The error text names a rate limit: it contains "429" or, in whatever
\* letter case, "rate limit".
RateLimitClass(error_str) ==
    \E i \in 1..Len(error_str) : Lower(error_str)[i] \in {"429", "rate limit"}

\* The positions of the API calls in the log
AttemptsMade == {i \in 1..Len(vlm_log) : vlm_log[i].kind = "attempt"}

\* C20: _call_vlm attempts the call at most max_retries times; an attempt
\* after the first one follows a rate-limit-class failure of attempt n and a
\* wait of 2 * 2^n seconds; a failure of any other class is raised right
\* after its attempt, which is the last one; and so is a rate-limit failure
\* of the last allowed attempt.
C20_RetryPolicy ==
    /\ Cardinality(AttemptsMade) <= vlm_max_retries
    /\ \A i \in AttemptsMade :
           /\ vlm_log[i].attempt < vlm_max_retries
           /\ i > 1 =>
                  /\ i >= 3
                  /\ vlm_log[i - 1].kind = "sleep"
                  /\ vlm_log[i - 2].kind = "attempt"
                  /\ vlm_log[i - 2].failed
                  /\ RateLimitClass(vlm_log[i - 2].error)
                  /\ vlm_log[i].attempt = vlm_log[i - 2].attempt + 1
                  /\ vlm_log[i - 1].seconds = 2 * 2 ^ vlm_log[i - 2].attempt
           /\ (vlm_log[i].failed
                  /\ (\/ ~RateLimitClass(vlm_log[i].error)
                      \/ vlm_log[i].attempt = vlm_max_retries - 1)) =>
                  /\ i = Len(vlm_log)
                  /\ vpc = "done"
                  /\ vlm_outcome = Raised(vlm_log[i].error)

\* C20 witness: with max_retries = 3 the call hit the rate limit three times,
\* slept 2 and 4 seconds in between, and raised the last failure.
C20_Witness ==
    /\ vpc = "done"
    /\ vlm_max_retries = 3
    /\ Len(vlm_log) = 5
    /\ vlm_log[2].seconds = 2 /\ vlm_log[4].seconds = 4
    /\ vlm_log[5].failed /\ RateLimitClass(vlm_log[5].error)
    /\ vlm_outcome.kind = "raised"

----------------------------------------------------------------------------
(* Claims about retries of the text-generation call *)

\* C21: a rate-limit-class failure of the text-generation call is retried
\* before a failure outcome is produced: an answer_question call that
\* returns the error-marked answer of a rate-limit failure has invoked the
\* model more than once.
C21_RateLimitRetried ==
    (apc = "done" /\ llm_raised
        /\ \E e \in GenerationErrors :
               RateLimitClass(e) /\ answer.answer = ErrorAnswer(e)) =>
        llm_invocations >= 2

----------------------------------------------------------------------------
(* Claims about the course of multi_hop_reasoning *)

\* How many of the first n events of the call are of the given kind
EventCount(kind, n) ==
    Cardinality({i \in 1..n : mh_events[i].kind = kind})

\* The order of the retrievals and generations of a multi-hop call so far
HopEventOrder ==
    LET n == Len(mh_events)
    IN  /\ EventCount("retrieve", n) <= mh_max_hops
        /\ EventCount("followup", n) <= Max(mh_max_hops - 1, 0)
        /\ EventCount("generate", n) = Len(reasoning_chain)
        /\ \A i \in 1..n :
               /\ mh_events[i].kind = "retrieve" =>
                      /\ i > 1 => mh_events[i - 1].kind = "followup"
                      /\ i < n => mh_events[i + 1].kind \in {"generate", "final"}
               /\ mh_events[i].kind = "generate" =>
                      /\ mh_events[i - 1].kind = "retrieve"
                      /\ i < n => mh_events[i + 1].kind \in {"followup", "final"}
                      /\ (i < n /\ Contains(Lower(reasoning_chain[EventCount("generate", i)].answer),
                                            <<"sufficient information">>)) =>
                             mh_events[i + 1].kind = "final"
               /\ mh_events[i].kind = "followup" =>
                      /\ mh_events[i - 1].kind = "generate"
                      /\ EventCount("retrieve", i) < mh_max_hops
                      /\ i < n => mh_events[i + 1].kind = "retrieve"
               /\ mh_events[i].kind = "final" => i = n /\ mhpc = "done"

\* What the call reports when it has returned
HopReport ==
    mhpc = "done" =>
        /\ EventCount("final", Len(mh_events)) = 1
        /\ mh_answer.evidence = all_evidence
        /\ Len(all_evidence) = Len(reasoning_chain) * Len(collection)
        /\ mh_answer.retrieval_stats.reasoning_hops = Len(reasoning_chain)
        /\ SubSeq(mh_answer.answer, 1, 3)
               = <<"Multi-hop Reasoning (", ToString(Len(reasoning_chain)), " hops):\n\n">>

\* C22: multi_hop_reasoning terminates; it makes at most max_hops hops, in
\* each a retrieval and then one intermediate generation; it leaves the
\* loop when a hop retrieves nothing or its intermediate answer contains the
\* sufficiency phrase; it generates a follow-up query only after a hop that
\* did not stop and is not the last allowed one; after the loop it makes
\* exactly one final generation over all accumulated evidence; and the hop
\* count of the answer prefix and of retrieval_stats is the number of hops
\* that produced an intermediate answer.
C22_MultiHopCourse ==
    /\ [](HopEventOrder /\ HopReport)
    /\ (mhpc \in {"loop", "final"}) ~> (mhpc = "done")

\* C22 witness: a call with max_hops = 3 has made three hops and two
\* follow-up queries, then the final generation, and has returned.
C22_Witness ==
    /\ mhpc = "done"
    /\ mh_max_hops = 3
    /\ Len(reasoning_chain) = 3
    /\ EventCount("followup", Len(mh_events)) = 2
    /\ Len(mh_events) = 9

----------------------------------------------------------------------------
(* Claims about the vector index *)

\* The stored chunks, as a set
Stored(coll) == {coll[i] : i \in 1..Len(coll)}

\* What one call on the store may do to the stored chunks
StoreFrame ==
    /\ \A v \in Stored(collection) \ Stored(collection') :
           \/ store_call'.op = "clear"
           \/ store_call'.op = "delete_paper" /\ store_call'.paper_name = v.paper_name
    /\ store_call'.op = "delete_paper" =>
           /\ collection' = SelectSeq(collection,
                                      LAMBDA v : v.paper_name # store_call'.paper_name)
           /\ (\A v \in Stored(collection) : v.paper_name # store_call'.paper_name) =>
                  collection' = collection
    /\ store_call'.op = "clear" => collection' = <<>>
    /\ store_call'.op \in {"search", "search_by_paper", "search_by_region_type"} =>
           collection' = collection
    /\ store_call'.op = "add_chunks" =>
           /\ Len(collection') > Len(collection)
           /\ SubSeq(collection', 1, Len(collection)) = collection

\* C23: a stored chunk leaves the index only through delete_paper of its own
\* paper or through clear.  delete_paper(name) removes exactly the chunks
\* of paper name and leaves every other chunk as it was, and changes nothing
\* when no chunk of that paper is stored; clear leaves the index empty;
\* add_chunks and search remove nothing.
C23_StoreFrame == [][StoreFrame]_vars

\* C23 witness: delete_paper has removed the two chunks of one paper and left
\* the chunk of the other paper in the index.
C23_Witness ==
    /\ store_call.op = "delete_paper"
    /\ store_call.deleted = 2
    /\ Len(collection) = 1
    /\ collection[1].paper_name # store_call.paper_name

----------------------------------------------------------------------------
(* Claims about the routing of retrieve *)

\* C24: each retrieve call invokes exactly one search operation: the
\* per-paper merged search with top_k if filter_papers has more than one
\* entry; otherwise the per-region-type merged search with top_k if
\* filter_region_types has more than one entry; otherwise a single search
\* over 2 * top_k candidates, filtered by the single paper if filter_papers
\* has one entry, else by the single region type if filter_region_types has
\* one entry, else unfiltered.
C24_Routing ==
    rpc = "done" =>
        LET top_k == IF r_top_k = 0 THEN TopKDefault ELSE r_top_k
        IN  /\ Len(r_searches) = 1
            /\ Len(r_filter_papers) > 1 =>
                   /\ r_searches[1].op = "search_by_paper"
                   /\ r_searches[1].values = r_filter_papers
                   /\ r_searches[1].top_k = top_k
            /\ (Len(r_filter_papers) <= 1 /\ Len(r_filter_region_types) > 1) =>
                   /\ r_searches[1].op = "search_by_region_type"
                   /\ r_searches[1].values = r_filter_region_types
                   /\ r_searches[1].top_k = top_k
            /\ (Len(r_filter_papers) <= 1 /\ Len(r_filter_region_types) <= 1) =>
                   /\ r_searches[1].op = "search"
                   /\ r_searches[1].top_k = 2 * top_k
                   /\ Len(r_filter_papers) = 1 =>
                          r_searches[1].filter_metadata
                              = <<"paper_name", r_filter_papers[1]>>
                   /\ (Len(r_filter_papers) = 0 /\ Len(r_filter_region_types) = 1) =>
                          r_searches[1].filter_metadata
                              = <<"region_type", r_filter_region_types[1]>>
                   /\ (Len(r_filter_papers) = 0 /\ Len(r_filter_region_types) = 0) =>
                          r_searches[1].filter_metadata = <<>>

\* C24 witness: a call with several papers and several region types has
\* searched per paper and found evidence.
C24_Witness ==
    /\ rpc = "done"
    /\ Len(r_filter_papers) > 1 /\ Len(r_filter_region_types) > 1
    /\ r_searches[1].op = "search_by_paper"
    /\ retrieval_result.total_chunks >= 2

----------------------------------------------------------------------------
(* Claims about the natural-break rule *)

\* The positions (counted from 0) at which separator sep occurs in the text
\* wholly inside the window [lo, hi)
OccurrencesIn(sep, lo, hi) ==
    {p \in 0..(Len(text) - Len(sep)) :
        /\ lo <= p /\ p + Len(sep) <= hi
        /\ SubSeq(text, p + 1, p + Len(sep)) = sep}

\* The separators that occur in the window, by their place in the priority
\* order: paragraph break, newline, period-space, space
SeparatorsIn(lo, hi) ==
    {k \in 1..Len(BreakChars) : OccurrencesIn(BreakChars[k], lo, hi) # {}}

\* The cut the natural-break rule asks for in the window that starts at lo
NaturalCut(lo) ==
    LET hi == lo + chunk_size * CharsPerToken
    IN  IF hi < Len(text) /\ SeparatorsIn(lo, hi) # {}
        THEN LET k == SetMin(SeparatorsIn(lo, hi))
             IN  SetMax(OccurrencesIn(BreakChars[k], lo, hi)) + Len(BreakChars[k])
        ELSE hi

\* The start that followed window i
StartAfter(i) == IF i < Len(windows) THEN windows[i + 1][1] ELSE start

\* C25: in every window of _chunk_text that ends before the end of the text
\* the cut is placed just after the last occurrence, inside the window, of
\* the highest-priority separator that occurs in the window; it is the raw
\* window boundary when no separator occurs in it; and the next start is
\* the cut minus chunk_overlap * 4 unless the cut reached the end of the
\* text.
C25_NaturalBreak ==
    \A i \in 1..Len(windows) :
        /\ windows[i][2] = NaturalCut(windows[i][1])
        /\ StartAfter(i) = IF windows[i][2] < Len(text)
                           THEN windows[i][2] - chunk_overlap * CharsPerToken
                           ELSE windows[i][2]

\* The rule of C25 in the windows whose start is a position of the text
C25_NaturalBreakFromTextPositions ==
    \A i \in 1..Len(windows) :
        windows[i][1] >= 0 =>
            /\ windows[i][2] = NaturalCut(windows[i][1])
            /\ StartAfter(i) = IF windows[i][2] < Len(text)
                               THEN windows[i][2] - chunk_overlap * CharsPerToken
                               ELSE windows[i][2]

----------------------------------------------------------------------------
(* Claims about the fan-out searches *)

\* The stored chunks that match one of the filter values of the fan-out call
MatchingAny(call) ==
    LET key == IF call.op = "search_by_paper" THEN "paper_name" ELSE "region_type"
    IN  {v \in Stored(collection) :
            \E i \in 1..Len(call.values) : v[key] = call.values[i]}

\* The results of the fan-out call are the top_k highest-scoring matching
\* chunks, in descending order of score (up to the order and the choice
\* among chunks of equal score).
IsTopKOfMatching(call) ==
    LET results  == call.results
        matching == MatchingAny(call)
        ids      == {results[i].chunk_id : i \in 1..Len(results)}
    IN  /\ \A i, j \in 1..Len(results) : i < j => results[i].score >= results[j].score
        /\ Len(results) <= call.top_k
        /\ Len(results) = Min(call.top_k, Cardinality(matching))
        /\ Cardinality(ids) = Len(results)
        /\ \A i \in 1..Len(results) :
               \E v \in matching :
                   v.chunk_id = results[i].chunk_id /\ ScoreOf(v.distance) = results[i].score
        /\ \A v \in matching :
               v.chunk_id \notin ids =>
                   \A i \in 1..Len(results) : ScoreOf(v.distance) <= results[i].score

\* A fan-out search with a top_k and pairwise distinct filter values has
\* just returned.
FanOutReturned ==
    /\ store_call'.op \in {"search_by_paper", "search_by_region_type"}
    /\ store_call'.top_k >= 1
    /\ \A i, j \in 1..Len(store_call'.values) :
           store_call'.values[i] = store_call'.values[j] => i = j

\* C26: search_by_paper and search_by_region_type, called with pairwise
\* distinct filter values, return results sorted by descending score, at
\* most top_k of them, whose chunk_ids are those of the top_k
\* highest-scoring chunks among all indexed chunks that match any of the
\* filter values (up to score ties).
C26_FanOutTopK == [][FanOutReturned => IsTopKOfMatching(store_call')]_vars

\* C26 witness: search_by_paper(["P1", "P2"], top_k = 2) over three indexed
\* chunks of both papers has returned the two best, one of each paper, the
\* one of P2 first.
C26_Witness ==
    /\ store_call.op = "search_by_paper"
    /\ store_call.values = <<"P1", "P2">> /\ store_call.top_k = 2
    /\ Len(collection) = 3
    /\ Len(store_call.results) = 2
    /\ store_call.results[1].chunk_id[1] = "P2"
    /\ store_call.results[2].chunk_id[1] = "P1"
    /\ store_call.results[1].score > store_call.results[2].score

----------------------------------------------------------------------------
(* Claims about the filters of retrieve *)

\* x is one of the entries of list
InList(x, list) == \E i \in 1..Len(list) : list[i] = x

\* C27: every evidence item retrieve returns satisfies every filter that was
\* supplied: its paper_name is in filter_papers when that list is not
\* empty, and its region_type is in filter_region_types when that list is
\* not empty, also when both filters are supplied at once.
C27_FiltersRespected ==
    rpc = "done" =>
        \A i \in 1..Len(retrieval_result.evidence_chunks) :
            LET evidence == retrieval_result.evidence_chunks[i]
            IN  /\ r_filter_papers # <<>> =>
                       InList(evidence.paper_name, r_filter_papers)
                /\ r_filter_region_types # <<>> =>
                       InList(evidence.region_type, r_filter_region_types)

\* The filters are respected when only one of them is supplied
C27_SingleFilterRespected ==
    (rpc = "done" /\ (r_filter_papers = <<>> \/ r_filter_region_types = <<>>)) =>
        \A i \in 1..Len(retrieval_result.evidence_chunks) :
            LET evidence == retrieval_result.evidence_chunks[i]
            IN  /\ r_filter_papers # <<>> =>
                       InList(evidence.paper_name, r_filter_papers)
                /\ r_filter_region_types # <<>> =>
                       InList(evidence.region_type, r_filter_region_types)

----------------------------------------------------------------------------
(* Claims about multi_hop_reasoning without evidence *)

\* C28: multi_hop_reasoning reports has_evidence = true only when it has
\* accumulated evidence: when the first hop retrieves nothing it returns the
\* no-evidence Answer (has_evidence = false, no evidence, no sources) and
\* makes no text-generation call.
C28_MultiHopNoEvidence ==
    (mhpc = "done" /\ mh_events[1].kind = "retrieve" /\ all_evidence = <<>>) =>
        /\ mh_answer.has_evidence = FALSE
        /\ mh_answer.evidence = <<>>
        /\ mh_answer.sources = <<>>
        /\ \A i \in 1..Len(mh_events) : mh_events[i].kind = "retrieve"

----------------------------------------------------------------------------
(* Claims about the validity checks of the answer cache *)

\* The stored questions whose answer carries an error marker
ErrorMarked(c) ==
    {q \in DOMAIN c :
        \/ Contains(c[q].answer, <<"Error", "generating answer">>)
        \/ Contains(c[q].answer, <<"Error", "code: 402">>)}

\* has and get agree on every question
HasAgreesWithGet ==
    \A q \in Questions : Has(cache, q) <=> (Get(cache, q) # <<>>)

\* has, get and get_stats leave the mapping alone, get_stats counts every
\* stored entry, and an error-marked entry stays as it is in the mapping of
\* an instance unless set overwrites it or clear removes it (load is the
\* start of a new instance from the file).
ReadsKeepEntries ==
    /\ cache_call'.op \in {"has", "get", "get_stats"} =>
           cache' = cache /\ cache_file' = cache_file
    /\ cache_call'.op = "get_stats" =>
           /\ cache_call'.returned.total_cached = Cardinality(DOMAIN cache)
           /\ ErrorMarked(cache) \subseteq cache_call'.returned.questions
    /\ \A q \in ErrorMarked(cache) :
           (q \notin DOMAIN cache' \/ cache'[q] # cache[q]) =>
               \/ cache_call'.op = "set" /\ cache_call'.question = q
               \/ cache_call'.op \in {"clear", "load"}
    /\ (cache_call'.op = "has" /\ cache_call'.question \in ErrorMarked(cache)) =>
           cache_call'.returned = FALSE /\ cache_call'.question \in DOMAIN cache'
    /\ (cache_call'.op = "get" /\ cache_call'.question \in ErrorMarked(cache)) =>
           cache_call'.returned = <<>> /\ cache_call'.question \in DOMAIN cache'

\* C29: in every reachable cache state and for every question, has(question)
\* is true exactly when get(question) returns an entry, and neither has nor
\* get changes the stored mapping: an error-marked entry stays stored, and
\* counted by get_stats, until set overwrites it or clear removes it.
C29_HasGetAgree == []HasAgreesWithGet /\ [][ReadsKeepEntries]_vars

\* C29 witness: get has returned None for a question whose error-marked
\* entry is still stored, next to a valid entry.
C29_Witness ==
    /\ cache_call.op = "get"
    /\ cache_call.returned = <<>>
    /\ cache_call.question \in ErrorMarked(cache)
    /\ GetStats(cache).total_cached = 2
    /\ Cardinality(ErrorMarked(cache)) = 1

----------------------------------------------------------------------------
(* Claims about repeated chunks in the evidence *)

\* No chunk_id occurs twice in a list of chunks
DistinctChunkIds(chunks_list) ==
    \A i, j \in 1..Len(chunks_list) :
        chunks_list[i].chunk_id = chunks_list[j].chunk_id => i = j

\* C30: when every indexed chunk has a distinct chunk_id, the evidence list
\* returned by retrieve never contains the same chunk_id twice, for every
\* top_k, diversity_lambda and filter lists, including lists that name the
\* same paper or region type more than once.
C30_NoRepeatedEvidence ==
    (rpc = "done" /\ DistinctChunkIds(collection)) =>
        DistinctChunkIds(retrieval_result.evidence_chunks)

\* C30 with filter lists whose values are pairwise distinct
C30_NoRepeatedEvidenceDistinctFilters ==
    (rpc = "done" /\ DistinctChunkIds(collection)
        /\ \A k \in 1..Len(r_searches) :
               \A i, j \in 1..Len(r_searches[k].values) :
                   r_searches[k].values[i] = r_searches[k].values[j] => i = j) =>
        DistinctChunkIds(retrieval_result.evidence_chunks)

----------------------------------------------------------------------------
(* Specifications, one per component *)

OthersIdle ==
    StoreIdle /\ RetrieveIdle /\ AnswerIdle /\ MultiHopIdle /\ CacheIdle /\ VlmIdle

InitChunk == ChunkInit /\ OrderIdle /\ MmrIdle /\ OthersIdle

SpecChunk == InitChunk /\ [][ChunkNext]_vars

InitChunkIds == ChunkIdsInit /\ OrderIdle /\ MmrIdle /\ OthersIdle

SpecChunkIds == InitChunkIds /\ [][ChunkNext]_vars

InitScenarioB == ScenarioInit /\ OrderIdle /\ MmrIdle /\ OthersIdle

SpecScenarioB == InitScenarioB /\ [][ChunkNext]_vars

InitOrder == OrderInit /\ ChunkIdle /\ MmrIdle /\ OthersIdle

SpecOrder == InitOrder /\ [][OrderNext]_vars

InitMmr == MmrInit /\ ChunkIdle /\ OrderIdle /\ OthersIdle

SpecMmr == InitMmr /\ [][MmrNext]_vars

InitRetrieve ==
    /\ StoreInit /\ RetrieveInit
    /\ ChunkIdle /\ OrderIdle /\ MmrIdle /\ AnswerIdle /\ MultiHopIdle /\ CacheIdle
    /\ VlmIdle

SpecRetrieve == InitRetrieve /\ [][RetrieveNext]_vars

InitStore ==
    /\ StoreInit
    /\ ChunkIdle /\ OrderIdle /\ MmrIdle /\ RetrieveIdle /\ AnswerIdle /\ MultiHopIdle
    /\ CacheIdle /\ VlmIdle

SpecStore == InitStore /\ [][StoreNext]_vars

SpecFanOut == InitStore /\ [][FanOutNext]_vars

InitAnswer ==
    /\ StoreInit /\ AnswerInit
    /\ ChunkIdle /\ OrderIdle /\ MmrIdle /\ RetrieveIdle /\ MultiHopIdle /\ CacheIdle
    /\ VlmIdle

SpecAnswer == InitAnswer /\ [][AnswerNext]_vars

InitCache ==
    /\ CacheInit
    /\ ChunkIdle /\ OrderIdle /\ MmrIdle /\ StoreIdle /\ RetrieveIdle /\ AnswerIdle /\ MultiHopIdle
    /\ VlmIdle

SpecCache == InitCache /\ [][CacheNext]_vars

SpecCacheBatch == InitCache /\ [][CacheBatchNext]_vars

InitEngine ==
    /\ collection \in HopIndexes /\ store_call = NoStoreCall
    /\ AnswerInit /\ MultiHopInit
    /\ ChunkIdle /\ OrderIdle /\ MmrIdle /\ RetrieveIdle /\ CacheIdle
    /\ VlmIdle

SpecEngine == InitEngine /\ [][EngineNext]_vars

\* A multi_hop_reasoning call alone.  Its retrievals and model invocations
\* return, and the call is then carried on; every such step adds to
\* mh_events.
SpecMultiHop ==
    /\ InitEngine /\ [][MultiHopNext]_vars
    /\ WF_mh_events(Hop) /\ WF_mh_events(FinalSynthesis)

InitVlm ==
    /\ VlmInit
    /\ ChunkIdle /\ OrderIdle /\ MmrIdle /\ StoreIdle /\ RetrieveIdle /\ AnswerIdle
    /\ MultiHopIdle /\ CacheIdle

SpecVlm == InitVlm /\ [][VlmNext]_vars

=============================================================================
